---- MODULE Spec2Model ----
(***************************************************************************)
(* Key lifecycle and verification core of fastapi-api-key:                 *)
(*   - the credential codec (services/base.py, _get_parts),                *)
(*   - the verification pipeline of ApiKeyService,                         *)
(*   - the read-through cache of CachedApiKeyService,                      *)
(*   - the timing jitter of AbstractApiKeyService.verify_key.              *)
(* Strings are sequences of one-character strings.  Timestamps are         *)
(* integers; NoTime stands for Python's None in an Optional[datetime].     *)
(* The uncached service (suffix U) and the cached service (suffix C) are   *)
(* driven by the same calls, each over a repository of its own.            *)
(***************************************************************************)
EXTENDS Integers, Sequences, FiniteSets, TLC

\* ------------------------------------------------------------------ bounds
MaxKeys == 1
MaxTime == 2
MaxOps == 5

\* --------------------------------------------------------------- constants
\* rrd, in units of the configured base delay
Rrd == 1

NoTime == -1

DEFAULT_SEPARATOR == "-"

DEFAULT_GLOBAL_PREFIX == <<"a">>

\* Python's None passed as the api_key argument
None == <<"<None>">>

KeyIds == {<<"k">>, <<"j">>}

\* the secrets given to create(); WrongSecret is one never given to it
Secrets == {<<"s">>}

WrongSecret == <<"t">>

Scopes == {"read"}

Times == 0..MaxTime

\* ------------------------------------------------------------------- codec
RECURSIVE Split(_, _)
\* str.split(sep): every occurrence of sep cuts, empty pieces are kept
Split(s, sep) ==
    IF \A i \in 1..Len(s) : s[i] # sep
    THEN <<s>>
    ELSE LET i == CHOOSE n \in 1..Len(s) :
                      s[n] = sep /\ \A m \in 1..(n - 1) : s[m] # sep
         IN <<SubSeq(s, 1, i - 1)>> \o Split(SubSeq(s, i + 1, Len(s)), sep)

\* str.strip() == ""
IsBlank(s) == \A i \in 1..Len(s) : s[i] = " "

full_key_secret(global_prefix, key_id, key_secret, separator) ==
    global_prefix \o <<separator>> \o key_id \o <<separator>> \o key_secret

\* ------------------------------------------------------------------ hasher
Pepper == "pepper"

hash(key_secret) == <<"hmac", Pepper, key_secret>>

verify(key_hash, key_secret) == hash(key_secret) = key_hash

\* --------------------------------------------------------------- outcomes
Ok(entity) == [kind |-> "Ok", id |-> entity.id_, lu |-> entity.last_used_at]

Err(kind) == [kind |-> kind, id |-> 0, lu |-> NoTime]

ErrorKinds == {"KeyNotProvided", "InvalidKey", "KeyNotFound", "KeyInactive",
               "KeyExpired", "InvalidScopes"}

\* ------------------------------------------------------------------ entity
\* variant: the expiry is looked at before the active flag
ensure_can_authenticate_expiry_first(entity, t) ==
    IF entity.expires_at # NoTime /\ entity.expires_at < t THEN "KeyExpired"
    ELSE IF ~entity.is_active THEN "KeyInactive"
    ELSE ""

\* ensure_can_authenticate: "" when the key may authenticate
ensure_can_authenticate(entity, t) ==
    IF ~entity.is_active THEN "KeyInactive"
    ELSE IF entity.expires_at # NoTime /\ entity.expires_at < t THEN "KeyExpired"
    ELSE ""

missing_scopes(entity, required_scopes) ==
    SelectSeq(required_scopes, LAMBDA scope : scope \notin entity.scopes)

ensure_valid_scopes(entity, required_scopes) ==
    IF missing_scopes(entity, required_scopes) # <<>> THEN "InvalidScopes" ELSE ""

\* variant: only the first use is recorded
touch_once(entity, t) ==
    IF entity.last_used_at = NoTime THEN [entity EXCEPT !.last_used_at = t] ELSE entity

touch(entity, t) == [entity EXCEPT !.last_used_at = t]

\* -------------------------------------------------------------- repository
\* a store is a function from the ids it holds to entities; ids are handed
\* out in increasing order, so dict order is id order
repo_get_by_key_id(store, key_id) ==
    LET hits == {i \in DOMAIN store : store[i].key_id = key_id}
    IN IF hits = {} THEN {}
       ELSE {store[CHOOSE i \in hits : \A j \in hits : i <= j]}

repo_create(store, entity) ==
    [i \in DOMAIN store \cup {entity.id_} |->
        IF i = entity.id_ THEN entity ELSE store[i]]

repo_update(store, entity) ==
    IF entity.id_ \notin DOMAIN store THEN store
    ELSE [store EXCEPT ![entity.id_] = entity]

repo_delete_by_id(store, id_) ==
    [i \in DOMAIN store \ {id_} |-> store[i]]

\* ------------------------------------------------- ApiKeyService (uncached)
\* the result of one call: outcome, repository afterwards, the hasher.verify
\* calls made (stored hash, candidate) and the repository calls made
Result(res, store, hcalls, rcalls) ==
    [res |-> res, store |-> store, hcalls |-> hcalls, rcalls |-> rcalls]

\* variant: segments after the third are dropped
_get_parts_lenient(api_key, separator) ==
    LET parts == Split(api_key, separator)
    IN IF Len(parts) < 3
       THEN [err |-> "InvalidKey", global_prefix |-> <<>>, key_id |-> <<>>, key_secret |-> <<>>]
       ELSE [err |-> "", global_prefix |-> parts[1], key_id |-> parts[2], key_secret |-> parts[3]]

_get_parts(api_key, separator) ==
    LET parts == Split(api_key, separator)
    IN IF Len(parts) # 3
       THEN [err |-> "InvalidKey", global_prefix |-> <<>>, key_id |-> <<>>, key_secret |-> <<>>]
       ELSE [err |-> "", global_prefix |-> parts[1], key_id |-> parts[2], key_secret |-> parts[3]]

_parse_and_validate_key(api_key) ==
    LET bad(kind) == [err |-> kind, global_prefix |-> <<>>, key_id |-> <<>>, key_secret |-> <<>>]
    IN IF api_key = None THEN bad("KeyNotProvided")
       ELSE IF IsBlank(api_key) THEN bad("KeyNotProvided")
       ELSE LET parts == _get_parts(api_key, DEFAULT_SEPARATOR)
            IN IF parts.err # "" THEN parts
               ELSE IF parts.global_prefix # DEFAULT_GLOBAL_PREFIX THEN bad("InvalidKey")
               ELSE parts

\* ApiKeyService.touch: the result of the repository update is not looked at
svc_touch(store, entity, t) ==
    LET touched == touch(entity, t)
    IN Result(Ok(touched), repo_update(store, touched), <<>>, <<"update">>)

\* variant: the entity is touched before its scopes are checked
_verify_entity_touch_before_scopes(store, entity, key_secret, required_scopes, t) ==
    IF ensure_can_authenticate(entity, t) # ""
    THEN Result(Err(ensure_can_authenticate(entity, t)), store, <<>>, <<>>)
    ELSE IF key_secret = <<>>
    THEN Result(Err("InvalidKey"), store, <<>>, <<>>)
    ELSE IF ~verify(entity.key_hash, key_secret)
    THEN Result(Err("InvalidKey"), store, <<<<entity.key_hash, key_secret>>>>, <<>>)
    ELSE LET r == svc_touch(store, entity, t)
         IN IF ensure_valid_scopes(entity, required_scopes) # ""
            THEN Result(Err("InvalidScopes"), r.store, <<<<entity.key_hash, key_secret>>>>, r.rcalls)
            ELSE Result(r.res, r.store, <<<<entity.key_hash, key_secret>>>>, r.rcalls)

\* variant: the secret is verified before the active flag and the expiry
_verify_entity_hash_first(store, entity, key_secret, required_scopes, t) ==
    IF key_secret = <<>>
    THEN Result(Err("InvalidKey"), store, <<>>, <<>>)
    ELSE IF ~verify(entity.key_hash, key_secret)
    THEN Result(Err("InvalidKey"), store, <<<<entity.key_hash, key_secret>>>>, <<>>)
    ELSE IF ensure_can_authenticate(entity, t) # ""
    THEN Result(Err(ensure_can_authenticate(entity, t)), store,
                <<<<entity.key_hash, key_secret>>>>, <<>>)
    ELSE IF ensure_valid_scopes(entity, required_scopes) # ""
    THEN Result(Err("InvalidScopes"), store, <<<<entity.key_hash, key_secret>>>>, <<>>)
    ELSE LET r == svc_touch(store, entity, t)
         IN Result(r.res, r.store, <<<<entity.key_hash, key_secret>>>>, r.rcalls)

_verify_entity(store, entity, key_secret, required_scopes, t) ==
    IF ensure_can_authenticate(entity, t) # ""
    THEN Result(Err(ensure_can_authenticate(entity, t)), store, <<>>, <<>>)
    ELSE IF key_secret = <<>>
    THEN Result(Err("InvalidKey"), store, <<>>, <<>>)
    ELSE IF ~verify(entity.key_hash, key_secret)
    THEN Result(Err("InvalidKey"), store, <<<<entity.key_hash, key_secret>>>>, <<>>)
    ELSE IF ensure_valid_scopes(entity, required_scopes) # ""
    THEN Result(Err("InvalidScopes"), store, <<<<entity.key_hash, key_secret>>>>, <<>>)
    ELSE LET r == svc_touch(store, entity, t)
         IN Result(r.res, r.store, <<<<entity.key_hash, key_secret>>>>, r.rcalls)

\* ApiKeyService._verify_key, get_by_key_id included
_verify_key(store, api_key, required_scopes, t) ==
    LET parsed == _parse_and_validate_key(api_key)
    IN IF parsed.err # "" THEN Result(Err(parsed.err), store, <<>>, <<>>)
       ELSE IF IsBlank(parsed.key_id) THEN Result(Err("KeyNotProvided"), store, <<>>, <<>>)
       ELSE LET found == repo_get_by_key_id(store, parsed.key_id)
            IN IF found = {}
               THEN Result(Err("KeyNotFound"), store, <<>>, <<"get_by_key_id">>)
               ELSE LET entity == CHOOSE e \in found : TRUE
                        r == _verify_entity(store, entity, parsed.key_secret, required_scopes, t)
                    IN Result(r.res, r.store, r.hcalls, <<"get_by_key_id">> \o r.rcalls)

\* ApiKeyService.update
svc_update(store, entity) ==
    IF entity.id_ \notin DOMAIN store
    THEN Result(Err("KeyNotFound"), store, <<>>, <<"update">>)
    ELSE Result(Ok(entity), repo_update(store, entity), <<>>, <<"update">>)

\* ApiKeyService.delete_by_id
svc_delete_by_id(store, id_) ==
    IF id_ \notin DOMAIN store
    THEN Result(Err("KeyNotFound"), store, <<>>, <<"delete_by_id">>)
    ELSE Result(Ok(store[id_]), repo_delete_by_id(store, id_), <<>>, <<"delete_by_id">>)

\* create without the expiry validation
svc_create_unchecked(store, id_, key_id, key_secret, is_active, expires_at, scopes, t) ==
    LET entity == [id_ |-> id_, key_id |-> key_id, key_hash |-> hash(key_secret),
                   is_active |-> is_active, expires_at |-> expires_at,
                   scopes |-> scopes, last_used_at |-> NoTime]
    IN Result(Ok(entity), repo_create(store, entity), <<>>, <<"create">>)

\* ApiKeyService.create: the entity persisted, or ValueError
svc_create(store, id_, key_id, key_secret, is_active, expires_at, scopes, t) ==
    IF expires_at # NoTime /\ expires_at < t
    THEN Result(Err("ValueError"), store, <<>>, <<>>)
    ELSE LET entity == [id_ |-> id_, key_id |-> key_id, key_hash |-> hash(key_secret),
                        is_active |-> is_active, expires_at |-> expires_at,
                        scopes |-> scopes, last_used_at |-> NoTime]
         IN Result(Ok(entity), repo_create(store, entity), <<>>, <<"create">>)

\* ------------------------------------------------------ CachedApiKeyService
cache_prefix == "api_key"

INDEX_PREFIX == "idx"

_get_index_key(key_id) == <<cache_prefix, INDEX_PREFIX, key_id>>

\* SHA-256 of the full credential, taken as collision free
_compute_cache_key(full_api_key) == <<"sha256", full_api_key>>

\* cache.delete(key) on either key space of the one cache
cache_delete(c, key) == [k \in DOMAIN c \ {key} |-> c[k]]

cache_set(c, key, value) == [k \in DOMAIN c \cup {key} |-> IF k = key THEN value ELSE c[k]]

\* the result of one call on the cached service
CResult(res, store, c, ix, hcalls, rcalls, hit) ==
    [res |-> res, store |-> store, cache |-> c, index |-> ix,
     hcalls |-> hcalls, rcalls |-> rcalls, hit |-> hit]

\* variant: only the primary entry is deleted, the index entry stays
_invalidate_cache_entry_only(c, ix, key_id) ==
    LET index_key == _get_index_key(key_id)
    IN IF index_key \in DOMAIN ix
       THEN [cache |-> cache_delete(c, ix[index_key]), index |-> ix]
       ELSE [cache |-> c, index |-> ix]

\* _invalidate_cache: the pair (cache, index) afterwards
_invalidate_cache(c, ix, key_id) ==
    LET index_key == _get_index_key(key_id)
    IN IF index_key \in DOMAIN ix
       THEN [cache |-> cache_delete(c, ix[index_key]), index |-> cache_delete(ix, index_key)]
       ELSE [cache |-> c, index |-> ix]

\* CachedApiKeyService.update
cached_update(store, c, ix, entity) ==
    LET r == svc_update(store, entity)
    IN IF r.res.kind # "Ok"
       THEN CResult(r.res, r.store, c, ix, <<>>, r.rcalls, FALSE)
       ELSE LET inv == _invalidate_cache(c, ix, entity.key_id)
            IN CResult(r.res, r.store, inv.cache, inv.index, <<>>, r.rcalls, FALSE)

\* CachedApiKeyService.delete_by_id
cached_delete_by_id(store, c, ix, id_) ==
    IF id_ \notin DOMAIN store
    THEN CResult(Err("KeyNotFound"), store, c, ix, <<>>, <<"get_by_id">>, FALSE)
    ELSE LET r == svc_delete_by_id(store, id_)
             inv == _invalidate_cache(c, ix, store[id_].key_id)
         IN CResult(r.res, r.store, inv.cache, inv.index, <<>>, <<"get_by_id">> \o r.rcalls, FALSE)

\* the checks of the cache-hit branch: the error raised, "" when none
hit_checks(cached_entity, required_scopes, t) ==
    IF ensure_can_authenticate(cached_entity, t) # "" THEN ensure_can_authenticate(cached_entity, t)
    ELSE IF missing_scopes(cached_entity, required_scopes) # <<>> THEN "InvalidScopes"
    ELSE ""

\* the checks of the cache-miss branch between the lookup and the touch
miss_checks(entity, key_secret, required_scopes, t) ==
    IF ensure_can_authenticate(entity, t) # "" THEN ensure_can_authenticate(entity, t)
    ELSE IF key_secret = <<>> THEN "InvalidKey"
    ELSE IF ~verify(entity.key_hash, key_secret) THEN "InvalidKey"
    ELSE IF missing_scopes(entity, required_scopes) # <<>> THEN "InvalidScopes"
    ELSE ""

\* variant: a hit writes the touched entity back to the cache
cached_hit_refreshing(store, c, ix, cached_entity, required_scopes, t) ==
    IF hit_checks(cached_entity, required_scopes, t) # ""
    THEN CResult(Err(hit_checks(cached_entity, required_scopes, t)), store, c, ix, <<>>, <<>>, TRUE)
    ELSE LET touched == touch(cached_entity, t)
             refreshed == [k \in DOMAIN c |-> IF c[k] = cached_entity THEN touched ELSE c[k]]
         IN IF touched.id_ \notin DOMAIN store
            THEN CResult(Err("KeyNotFound"), store, c, ix, <<>>, <<"update">>, TRUE)
            ELSE CResult(Ok(touched), repo_update(store, touched), refreshed, ix,
                         <<>>, <<"update">>, TRUE)

\* the cache-hit branch of CachedApiKeyService._verify_key
cached_hit(store, c, ix, cached_entity, required_scopes, t) ==
    IF hit_checks(cached_entity, required_scopes, t) # ""
    THEN CResult(Err(hit_checks(cached_entity, required_scopes, t)), store, c, ix, <<>>, <<>>, TRUE)
    ELSE LET touched == touch(cached_entity, t)
         IN IF touched.id_ \notin DOMAIN store
            THEN CResult(Err("KeyNotFound"), store, c, ix, <<>>, <<"update">>, TRUE)
            ELSE CResult(Ok(touched), repo_update(store, touched), c, ix, <<>>, <<"update">>, TRUE)

\* the cache-miss branch of CachedApiKeyService._verify_key
cached_miss(store, c, ix, api_key, key_id, key_secret, required_scopes, t) ==
    IF IsBlank(key_id) THEN CResult(Err("KeyNotProvided"), store, c, ix, <<>>, <<>>, FALSE)
    ELSE LET found == repo_get_by_key_id(store, key_id)
         IN IF found = {}
            THEN CResult(Err("KeyNotFound"), store, c, ix, <<>>, <<"get_by_key_id">>, FALSE)
            ELSE LET entity == CHOOSE e \in found : TRUE
                     hc == <<<<entity.key_hash, key_secret>>>>
                     rc == <<"get_by_key_id">>
                     touched == touch(entity, t)
                     cache_key == _compute_cache_key(api_key)
                     err == miss_checks(entity, key_secret, required_scopes, t)
                     hashed == ensure_can_authenticate(entity, t) = "" /\ key_secret # <<>>
                 IN IF err # ""
                    THEN CResult(Err(err), store, c, ix, IF hashed THEN hc ELSE <<>>, rc, FALSE)
                    ELSE CResult(Ok(touched), repo_update(store, touched),
                                 cache_set(c, cache_key, touched),
                                 cache_set(ix, _get_index_key(key_id), cache_key),
                                 hc, rc \o <<"update">>, FALSE)

\* CachedApiKeyService._verify_key
cached_verify_key(store, c, ix, api_key, required_scopes, t) ==
    LET parsed == _parse_and_validate_key(api_key)
        cache_key == _compute_cache_key(api_key)
    IN IF parsed.err # "" THEN CResult(Err(parsed.err), store, c, ix, <<>>, <<>>, FALSE)
       ELSE IF cache_key \in DOMAIN c
       THEN cached_hit(store, c, ix, c[cache_key], required_scopes, t)
       ELSE cached_miss(store, c, ix, api_key, parsed.key_id, parsed.key_secret, required_scopes, t)

\* one call on the cache object: cache.get(key) or cache.set(key, value)
CacheCall(op, key) == [op |-> op, key |-> key]

\* variant: the index entry is written before the entity entry
cache_calls_index_first(store, c, ix, api_key, required_scopes, t) ==
    LET parsed == _parse_and_validate_key(api_key)
        cache_key == _compute_cache_key(api_key)
    IN IF parsed.err # "" THEN << >>
       ELSE IF cache_key \in DOMAIN c THEN <<CacheCall("get", cache_key)>>
       ELSE IF cached_verify_key(store, c, ix, api_key, required_scopes, t).res.kind # "Ok"
       THEN <<CacheCall("get", cache_key)>>
       ELSE <<CacheCall("get", cache_key),
              CacheCall("set", _get_index_key(parsed.key_id)),
              CacheCall("set", cache_key)>>

\* the calls CachedApiKeyService._verify_key makes on the cache, in order
cache_calls(store, c, ix, api_key, required_scopes, t) ==
    LET parsed == _parse_and_validate_key(api_key)
        cache_key == _compute_cache_key(api_key)
    IN IF parsed.err # "" THEN << >>
       ELSE IF cache_key \in DOMAIN c THEN <<CacheCall("get", cache_key)>>
       ELSE IF cached_verify_key(store, c, ix, api_key, required_scopes, t).res.kind # "Ok"
       THEN <<CacheCall("get", cache_key)>>
       ELSE <<CacheCall("get", cache_key),
              CacheCall("set", cache_key),
              CacheCall("set", _get_index_key(parsed.key_id))>>

\* ------------------------------------------- AbstractApiKeyService.verify_key
\* variant: the sleep sits in a finally block
verify_key_sleep_always(r, wait) == [res |-> r.res, sleeps |-> <<wait>>]

\* the public wrapper: on any exception sleep `wait`, then re-raise it
verify_key(r, wait) ==
    [res |-> r.res, sleeps |-> IF r.res.kind # "Ok" THEN <<wait>> ELSE <<>>]

\* SystemRandom.uniform(rrd, rrd * 2)
uniform(a, b) == a..b

\* -------------------------------------------------------------------- state
VARIABLES
    now,        \* datetime_factory()
    nextId,     \* the next uuid_factory() value
    repoU,      \* repository behind the ApiKeyService
    repoC,      \* repository behind the CachedApiKeyService
    cache,      \* primary cache entries: SHA-256(credential) -> entity
    index,      \* index cache entries: "<cache_prefix>:idx:<key_id>" -> cache key
    nops,       \* number of service calls made so far
    last,       \* the last service call: its arguments and what it did
    tasks       \* the coroutines in flight on the CachedApiKeyService

VARIABLES
    _store,     \* InMemoryApiKeyRepository._store: id -> entity object
    rows,       \* the table behind SqlAlchemyApiKeyRepository: id -> row
    ret,        \* what the last call on the two repositories' services returned
    input,      \* the arguments a pure function is applied to
    output      \* what it returned, Pending before the call

\* the services over the in-memory and the SQL repository
storeVars == <<_store, rows, ret>>

\* the two services of the verification pipeline and their coroutines
pipeVars == <<repoU, repoC, cache, index, nops, last, tasks>>

\* the pure functions: codec and hashers
pureVars == <<input, output>>

vars == <<now, nextId, repoU, repoC, cache, index, nops, last, tasks, storeVars, pureVars>>

Ids == 1..MaxKeys

\* the instant callers use as an expiry date
Deadline == MaxTime - 1

ExpiryInputs == {NoTime, Deadline}

\* the credentials presented to verify_key
Credentials ==
    {full_key_secret(DEFAULT_GLOBAL_PREFIX, k, s, DEFAULT_SEPARATOR) :
        k \in KeyIds, s \in Secrets}
    \cup {<<"a", "-", "k", "-", "t">>, None, <<" ">>, <<"a", "-", "k">>, <<"a", "-", "k", "-">>, <<"a", "-", "-", "s">>,
          <<"z", "-", "k", "-", "s">>, <<"a", "-", "k", "-", "s", "-">>}

RequiredInputs == {<<>>, <<"read">>}

NoCall ==
    [op |-> "none", api_key |-> <<>>, required |-> <<>>, id |-> 0, field |-> "",
     resU |-> Err("none"), resC |-> Err("none"),
     hcallsU |-> <<>>, hcallsC |-> <<>>, rcallsU |-> <<>>, rcallsC |-> <<>>,
     hit |-> FALSE, sleepsU |-> <<>>, sleepsC |-> <<>>, cached |-> {}, ccalls |-> <<>>,
     pipeU |-> Err("none"), pipeC |-> Err("none"), prevU |-> NoTime, prevC |-> NoTime]

\* last_used_at of the stored entity a result names, NoTime when there is none
StoredLastUsed(store, res) ==
    IF res.id \in DOMAIN store THEN store[res.id].last_used_at ELSE NoTime

\* the credentials under which the cache holds an entity with this id
CachedCredentials(c, id_) == {k[2] : k \in {ck \in DOMAIN c : c[ck].id_ = id_}}

Absent(id_) ==
    [id_ |-> id_, key_id |-> <<>>, key_hash |-> hash(<<>>), is_active |-> TRUE,
     expires_at |-> NoTime, scopes |-> {}, last_used_at |-> NoTime]

\* the coroutines: one caller of update()/delete_by_id(), two of verify_key()
Verifiers == {"v1", "v2"}

Tasks == {"w"} \cup Verifiers

\* a coroutine that has not been called: its position and its local variables
IdleTask ==
    [pc |-> "idle", calls |-> 0, op |-> "", entity |-> Absent(0), cache_key |-> <<>>,
     required |-> <<>>, res |-> "", late |-> FALSE]

NoReturn == [op |-> "none", id |-> 0, key_id |-> <<>>, resM |-> "", resS |-> "", value |-> <<>>]

\* both repositories empty, no call made on them
NoStores == _store = << >> /\ rows = << >> /\ ret = NoReturn

Pending == [pending |-> TRUE]

NoInput == [fn |-> "none"]

\* no pure function under test
NoPure == input = NoInput /\ output = Pending

Init ==
    /\ now = 0
    /\ nextId = 1
    /\ repoU = << >>
    /\ repoC = << >>
    /\ cache = << >>
    /\ index = << >>
    /\ nops = 0
    /\ last = NoCall
    /\ tasks = [p \in Tasks |-> IdleTask]
    /\ NoStores
    /\ NoPure

\* time passes between two calls
Tick ==
    /\ now < MaxTime
    /\ now' = now + 1
    /\ UNCHANGED <<nextId, repoU, repoC, cache, index, nops, last, tasks, storeVars, pureVars>>

\* create(...) on both services
Create ==
    /\ nops < MaxOps
    /\ nextId <= MaxKeys
    /\ \E key_id \in KeyIds, key_secret \in Secrets, is_active \in BOOLEAN,
          expires_at \in ExpiryInputs, scopes \in SUBSET Scopes :
          LET u == svc_create(repoU, nextId, key_id, key_secret, is_active, expires_at, scopes, now)
              c == svc_create(repoC, nextId, key_id, key_secret, is_active, expires_at, scopes, now)
          IN /\ repoU' = u.store
             /\ repoC' = c.store
             /\ nextId' = IF c.res.kind = "Ok" THEN nextId + 1 ELSE nextId
             /\ last' = [NoCall EXCEPT !.op = "create", !.id = nextId,
                            !.api_key = full_key_secret(DEFAULT_GLOBAL_PREFIX, key_id,
                                                        key_secret, DEFAULT_SEPARATOR),
                            !.resU = u.res, !.resC = c.res,
                            !.rcallsU = u.rcalls, !.rcallsC = c.rcalls]
    /\ nops' = nops + 1
    /\ UNCHANGED <<now, cache, index, tasks, storeVars, pureVars>>

\* the entity a caller passes to update(): the stored one with one field set
Edits ==
    {[field |-> "is_active", b |-> b, s |-> {}, t |-> NoTime, k |-> <<>>] : b \in BOOLEAN}
    \cup {[field |-> "scopes", b |-> TRUE, s |-> s, t |-> NoTime, k |-> <<>>] : s \in SUBSET Scopes}
    \cup {[field |-> "expires_at", b |-> TRUE, s |-> {}, t |-> t, k |-> <<>>] : t \in ExpiryInputs}
    \cup {[field |-> "key_id", b |-> TRUE, s |-> {}, t |-> NoTime, k |-> k] : k \in KeyIds}

Edited(store, id_, edit) ==
    LET e == IF id_ \in DOMAIN store THEN store[id_] ELSE Absent(id_)
    IN CASE edit.field = "is_active" -> [e EXCEPT !.is_active = edit.b]
         [] edit.field = "scopes" -> [e EXCEPT !.scopes = edit.s]
         [] edit.field = "expires_at" -> [e EXCEPT !.expires_at = edit.t]
         [] edit.field = "key_id" -> [e EXCEPT !.key_id = edit.k]

\* update(entity) on both services
Update ==
    /\ nops < MaxOps
    /\ \E id_ \in Ids, edit \in Edits :
          LET u == svc_update(repoU, Edited(repoU, id_, edit))
              c == cached_update(repoC, cache, index, Edited(repoC, id_, edit))
          IN /\ repoU' = u.store
             /\ repoC' = c.store
             /\ cache' = c.cache
             /\ index' = c.index
             /\ last' = [NoCall EXCEPT !.op = "update", !.id = id_, !.field = edit.field,
                            !.resU = u.res, !.resC = c.res,
                            !.rcallsU = u.rcalls, !.rcallsC = c.rcalls,
                            !.cached = CachedCredentials(cache, id_)]
    /\ nops' = nops + 1
    /\ UNCHANGED <<now, nextId, tasks, storeVars, pureVars>>

\* delete_by_id(id_) on both services
Delete ==
    /\ nops < MaxOps
    /\ \E id_ \in Ids :
          LET u == svc_delete_by_id(repoU, id_)
              c == cached_delete_by_id(repoC, cache, index, id_)
          IN /\ repoU' = u.store
             /\ repoC' = c.store
             /\ cache' = c.cache
             /\ index' = c.index
             /\ last' = [NoCall EXCEPT !.op = "delete", !.id = id_,
                            !.resU = u.res, !.resC = c.res,
                            !.rcallsU = u.rcalls, !.rcallsC = c.rcalls,
                            !.cached = CachedCredentials(cache, id_)]
    /\ nops' = nops + 1
    /\ UNCHANGED <<now, nextId, tasks, storeVars, pureVars>>

\* verify_key(api_key, required_scopes) on both services
Verify ==
    /\ nops < MaxOps
    /\ \E api_key \in Credentials, required_scopes \in RequiredInputs,
          wait \in uniform(Rrd, Rrd * 2) :
          LET u == _verify_key(repoU, api_key, required_scopes, now)
              c == cached_verify_key(repoC, cache, index, api_key, required_scopes, now)
              wu == verify_key(u, wait)
              wc == verify_key(c, wait)
          IN /\ repoU' = u.store
             /\ repoC' = c.store
             /\ cache' = c.cache
             /\ index' = c.index
             /\ last' = [NoCall EXCEPT !.op = "verify", !.api_key = api_key,
                            !.required = required_scopes,
                            !.resU = wu.res, !.resC = wc.res,
                            !.hcallsU = u.hcalls, !.hcallsC = c.hcalls,
                            !.rcallsU = u.rcalls, !.rcallsC = c.rcalls,
                            !.hit = c.hit, !.sleepsU = wu.sleeps, !.sleepsC = wc.sleeps,
                            !.ccalls = cache_calls(repoC, cache, index, api_key,
                                                   required_scopes, now),
                            !.pipeU = u.res, !.pipeC = c.res,
                            !.prevU = StoredLastUsed(repoU, u.res),
                            !.prevC = StoredLastUsed(repoC, c.res)]
    /\ nops' = nops + 1
    /\ UNCHANGED <<now, nextId, tasks, storeVars, pureVars>>

Next == Tick \/ Create \/ Update \/ Delete \/ Verify

Spec == Init /\ [][Next]_vars

\* ------------------------------------------------- interleaved coroutines
\* Every await on the repository or on the cache is a suspension point: a
\* step below is one such call together with the synchronous code that
\* follows it up to the next await.

\* calls one verifying coroutine makes
MaxCalls == 2

\* the key the coroutines contend on, as create() stored it
RaceKeyId == <<"k">>

RaceSecret == <<"s">>

RaceCredential == full_key_secret(DEFAULT_GLOBAL_PREFIX, RaceKeyId, RaceSecret, DEFAULT_SEPARATOR)

RaceEntity(last_used_at) ==
    [id_ |-> 1, key_id |-> RaceKeyId, key_hash |-> hash(RaceSecret), is_active |-> TRUE,
     expires_at |-> NoTime, scopes |-> Scopes, last_used_at |-> last_used_at]

\* the changes the updating coroutine makes: disable, drop scopes, expire
RaceEdits == {e \in Edits : \/ e.field = "is_active" /\ ~e.b
                            \/ e.field = "scopes" /\ e.s = {}
                            \/ e.field = "expires_at" /\ e.t = Deadline}

\* one key stored, either never verified or verified once and cached
InitRace ==
    /\ now = MaxTime
    /\ nextId = 2
    /\ nops = 0
    /\ last = NoCall
    /\ tasks = [p \in Tasks |-> IdleTask]
    /\ NoStores
    /\ NoPure
    /\ \E warm \in BOOLEAN :
          /\ repoU = (1 :> RaceEntity(IF warm THEN 0 ELSE NoTime))
          /\ repoC = repoU
          /\ cache = IF warm THEN (_compute_cache_key(RaceCredential) :> RaceEntity(0)) ELSE << >>
          /\ index = IF warm THEN (_get_index_key(RaceKeyId) :> _compute_cache_key(RaceCredential))
                     ELSE << >>

Goto(p, pc) == [tasks EXCEPT ![p].pc = pc]

Return(p, res) == [tasks EXCEPT ![p].pc = "idle", ![p].res = res]

Frame == UNCHANGED <<now, nextId, repoU, nops, last, storeVars, pureVars>>

\* CachedApiKeyService.update: await super().update(entity)
W_Update ==
    /\ tasks["w"].pc = "idle" /\ tasks["w"].calls = 0
    /\ \E edit \in RaceEdits :
          LET entity == Edited(repoC, 1, edit)
              r == svc_update(repoC, entity)
          IN /\ repoC' = r.store
             /\ tasks' = IF r.res.kind = "Ok"
                         THEN [tasks EXCEPT !["w"].pc = "inv_get", !["w"].calls = 1,
                                            !["w"].op = "update", !["w"].entity = entity]
                         ELSE [tasks EXCEPT !["w"].pc = "idle", !["w"].calls = 1,
                                            !["w"].op = "update", !["w"].res = r.res.kind]
    /\ UNCHANGED <<cache, index>>
    /\ Frame

\* CachedApiKeyService.delete_by_id: result = await self._repo.get_by_id(id_)
W_DeleteGet ==
    /\ tasks["w"].pc = "idle" /\ tasks["w"].calls = 0
    /\ tasks' = IF 1 \in DOMAIN repoC
                THEN [tasks EXCEPT !["w"].pc = "del_repo", !["w"].calls = 1,
                                   !["w"].op = "delete", !["w"].entity = repoC[1]]
                ELSE [tasks EXCEPT !["w"].pc = "idle", !["w"].calls = 1,
                                   !["w"].op = "delete", !["w"].res = "KeyNotFound"]
    /\ UNCHANGED <<repoC, cache, index>>
    /\ Frame

\* CachedApiKeyService.delete_by_id: await super().delete_by_id(id_)
W_DeleteRepo ==
    /\ tasks["w"].pc = "del_repo"
    /\ LET r == svc_delete_by_id(repoC, tasks["w"].entity.id_)
       IN /\ repoC' = r.store
          /\ tasks' = IF r.res.kind = "Ok" THEN Goto("w", "inv_get")
                      ELSE Return("w", r.res.kind)
    /\ UNCHANGED <<cache, index>>
    /\ Frame

\* _invalidate_cache: cache_key = await self.cache.get(index_key)
W_InvGet ==
    /\ tasks["w"].pc = "inv_get"
    /\ LET index_key == _get_index_key(tasks["w"].entity.key_id)
       IN tasks' = IF index_key \in DOMAIN index
                   THEN [tasks EXCEPT !["w"].pc = "inv_del_entry",
                                      !["w"].cache_key = index[index_key]]
                   ELSE Return("w", "Ok")
    /\ UNCHANGED <<repoC, cache, index>>
    /\ Frame

\* _invalidate_cache: await self.cache.delete(cache_key)
W_InvDelEntry ==
    /\ tasks["w"].pc = "inv_del_entry"
    /\ cache' = cache_delete(cache, tasks["w"].cache_key)
    /\ tasks' = Goto("w", "inv_del_index")
    /\ UNCHANGED <<repoC, index>>
    /\ Frame

\* _invalidate_cache: await self.cache.delete(index_key)
W_InvDelIndex ==
    /\ tasks["w"].pc = "inv_del_index"
    /\ index' = cache_delete(index, _get_index_key(tasks["w"].entity.key_id))
    /\ tasks' = Return("w", "Ok")
    /\ UNCHANGED <<repoC, cache>>
    /\ Frame

\* the update()/delete_by_id() call has returned
WriterDone == tasks["w"].calls = 1 /\ tasks["w"].pc = "idle"

\* _verify_key up to cached_entity = await self.cache.get(cache_key), and on
\* a hit the checks and the touch() before the repository write
V_CacheGet(p) ==
    /\ tasks[p].pc = "idle" /\ tasks[p].calls < MaxCalls
    /\ \E required_scopes \in RequiredInputs :
          LET cache_key == _compute_cache_key(RaceCredential)
              called == [tasks EXCEPT ![p].calls = @ + 1, ![p].required = required_scopes,
                                      ![p].cache_key = cache_key, ![p].res = "",
                                      ![p].late = WriterDone]
          IN tasks' =
                IF cache_key \in DOMAIN cache
                THEN IF hit_checks(cache[cache_key], required_scopes, now) # ""
                     THEN [called EXCEPT ![p].pc = "idle",
                              ![p].res = hit_checks(cache[cache_key], required_scopes, now)]
                     ELSE [called EXCEPT ![p].pc = "hit_update",
                              ![p].entity = touch(cache[cache_key], now)]
                ELSE [called EXCEPT ![p].pc = "lookup"]
    /\ UNCHANGED <<repoC, cache, index>>
    /\ Frame

\* cache hit: updated = await self._repo.update(cached_entity)
V_HitUpdate(p) ==
    /\ tasks[p].pc = "hit_update"
    /\ repoC' = repo_update(repoC, tasks[p].entity)
    /\ tasks' = Return(p, IF tasks[p].entity.id_ \in DOMAIN repoC THEN "Ok" ELSE "KeyNotFound")
    /\ UNCHANGED <<cache, index>>
    /\ Frame

\* cache miss: entity = await self.get_by_key_id(key_id), then the checks
\* and the touch() before the repository write
V_Lookup(p) ==
    /\ tasks[p].pc = "lookup"
    /\ LET found == repo_get_by_key_id(repoC, RaceKeyId)
           entity == CHOOSE e \in found : TRUE
       IN tasks' =
             IF found = {} THEN Return(p, "KeyNotFound")
             ELSE IF miss_checks(entity, RaceSecret, tasks[p].required, now) # ""
             THEN Return(p, miss_checks(entity, RaceSecret, tasks[p].required, now))
             ELSE [tasks EXCEPT ![p].pc = "miss_update", ![p].entity = touch(entity, now)]
    /\ UNCHANGED <<repoC, cache, index>>
    /\ Frame

\* cache miss: updated = await self._repo.update(entity)
V_MissUpdate(p) ==
    /\ tasks[p].pc = "miss_update"
    /\ repoC' = repo_update(repoC, tasks[p].entity)
    /\ tasks' = IF tasks[p].entity.id_ \in DOMAIN repoC THEN Goto(p, "set_entry")
                ELSE Return(p, "KeyNotFound")
    /\ UNCHANGED <<cache, index>>
    /\ Frame

\* cache miss: await self.cache.set(cache_key, updated)
V_SetEntry(p) ==
    /\ tasks[p].pc = "set_entry"
    /\ cache' = cache_set(cache, tasks[p].cache_key, tasks[p].entity)
    /\ tasks' = Goto(p, "set_index")
    /\ UNCHANGED <<repoC, index>>
    /\ Frame

\* cache miss: await self.cache.set(index_key, cache_key)
V_SetIndex(p) ==
    /\ tasks[p].pc = "set_index"
    /\ index' = cache_set(index, _get_index_key(RaceKeyId), tasks[p].cache_key)
    /\ tasks' = Return(p, "Ok")
    /\ UNCHANGED <<repoC, cache>>
    /\ Frame

NextRace ==
    \/ W_Update \/ W_DeleteGet \/ W_DeleteRepo
    \/ W_InvGet \/ W_InvDelEntry \/ W_InvDelIndex
    \/ \E p \in Verifiers :
          \/ V_CacheGet(p) \/ V_HitUpdate(p)
          \/ V_Lookup(p) \/ V_MissUpdate(p) \/ V_SetEntry(p) \/ V_SetIndex(p)

SpecRace == InitRace /\ [][NextRace]_vars

\* ------------------------------------- coroutines of the uncached service
\* ApiKeyService on repoU: update() and delete_by_id() are one repository
\* await each; verify_key awaits the lookup and then, in touch(), the write.
FrameU == UNCHANGED <<now, nextId, repoC, cache, index, nops, last, storeVars, pureVars>>

\* ApiKeyService.update: await self._repo.update(entity)
U_Update ==
    /\ tasks["w"].pc = "idle" /\ tasks["w"].calls = 0
    /\ \E edit \in RaceEdits :
          LET entity == Edited(repoU, 1, edit)
              r == svc_update(repoU, entity)
          IN /\ repoU' = r.store
             /\ tasks' = [tasks EXCEPT !["w"].calls = 1, !["w"].op = "update",
                                       !["w"].entity = entity, !["w"].res = r.res.kind]
    /\ FrameU

\* ApiKeyService.delete_by_id: await self._repo.delete_by_id(id_)
U_DeleteById ==
    /\ tasks["w"].pc = "idle" /\ tasks["w"].calls = 0
    /\ LET r == svc_delete_by_id(repoU, 1)
       IN /\ repoU' = r.store
          /\ tasks' = [tasks EXCEPT !["w"].calls = 1, !["w"].op = "delete",
                                    !["w"].res = r.res.kind]
    /\ FrameU

\* _verify_key: entity = await self.get_by_key_id(key_id), then the checks
\* of _verify_entity and entity.touch() up to the write of touch()
U_GetByKeyId(p) ==
    /\ tasks[p].pc = "idle" /\ tasks[p].calls < MaxCalls
    /\ \E required_scopes \in RequiredInputs :
          LET found == repo_get_by_key_id(repoU, RaceKeyId)
              entity == CHOOSE e \in found : TRUE
              called == [tasks EXCEPT ![p].calls = @ + 1, ![p].required = required_scopes,
                                      ![p].res = "", ![p].late = WriterDone]
          IN tasks' =
                IF found = {} THEN [called EXCEPT ![p].res = "KeyNotFound"]
                ELSE IF miss_checks(entity, RaceSecret, required_scopes, now) # ""
                THEN [called EXCEPT
                         ![p].res = miss_checks(entity, RaceSecret, required_scopes, now)]
                ELSE [called EXCEPT ![p].pc = "touch", ![p].entity = touch(entity, now)]
    /\ UNCHANGED repoU
    /\ FrameU

\* touch: await self._repo.update(entity); return entity
U_Touch(p) ==
    /\ tasks[p].pc = "touch"
    /\ repoU' = repo_update(repoU, tasks[p].entity)
    /\ tasks' = Return(p, "Ok")
    /\ FrameU

NextUncached ==
    \/ U_Update \/ U_DeleteById
    \/ \E p \in Verifiers : U_GetByKeyId(p) \/ U_Touch(p)

SpecUncached == InitRace /\ [][NextUncached]_vars

\* --------------------------- entity objects and the two repositories
\* The in-memory repository keeps the entity object it is given, so the
\* object create() returns and the stored one are the same object; the SQL
\* repository keeps a row and hands out a new object on every read.

\* keys the two repositories may hold
MaxRows == 2

\* characters of the secret kept as display fragments
FragmentLen == 4

StoreSecrets == {<<"s", "e", "c", "r", "e", "t">>, <<"p", "l", "a", "i", "n", "s">>}

\* raised by a property read
ValueError == <<"<ValueError>">>

\* the entity the factory builds for create(): key_secret goes to _key_secret
entity_factory(id_, key_id, key_hash, key_secret, is_active, expires_at, scopes) ==
    [id_ |-> id_, key_id |-> key_id, key_hash |-> key_hash, is_active |-> is_active,
     expires_at |-> expires_at, scopes |-> scopes, last_used_at |-> NoTime,
     _key_secret |-> key_secret, _key_secret_first |-> None, _key_secret_last |-> None]

\* ApiKeyEntity.key_secret (a property): the value read and the entity
\* afterwards
key_secret_read(entity) ==
    [value |-> entity._key_secret, entity |-> [entity EXCEPT !._key_secret = None]]

\* ApiKey.key_secret_first
key_secret_first(entity) ==
    IF entity._key_secret_first # None THEN entity._key_secret_first
    ELSE IF entity._key_secret # None
    THEN SubSeq(entity._key_secret, 1,
                IF Len(entity._key_secret) < FragmentLen THEN Len(entity._key_secret)
                ELSE FragmentLen)
    ELSE ValueError

\* ApiKey.key_secret_last
key_secret_last(entity) ==
    IF entity._key_secret_last # None THEN entity._key_secret_last
    ELSE IF entity._key_secret # None
    THEN SubSeq(entity._key_secret,
                IF Len(entity._key_secret) < FragmentLen THEN 1
                ELSE Len(entity._key_secret) - FragmentLen + 1,
                Len(entity._key_secret))
    ELSE ValueError

\* _auto_to_model: the row for an entity; target is the row being updated,
\* None for a new one. _key_secret is skipped, the fragments are read through
\* the properties and left as they are when the property raises.
_auto_to_model(entity, target) ==
    [id_ |-> entity.id_, key_id |-> entity.key_id, key_hash |-> entity.key_hash,
     is_active |-> entity.is_active, expires_at |-> entity.expires_at,
     scopes |-> entity.scopes, last_used_at |-> entity.last_used_at,
     key_secret_first |-> IF key_secret_first(entity) # ValueError THEN key_secret_first(entity)
                          ELSE IF target = None THEN None ELSE target.key_secret_first,
     key_secret_last |-> IF key_secret_last(entity) # ValueError THEN key_secret_last(entity)
                         ELSE IF target = None THEN None ELSE target.key_secret_last]

\* _auto_to_domain: a new entity object for a row
_auto_to_domain(model) ==
    [id_ |-> model.id_, key_id |-> model.key_id, key_hash |-> model.key_hash,
     is_active |-> model.is_active, expires_at |-> model.expires_at,
     scopes |-> model.scopes, last_used_at |-> model.last_used_at,
     _key_secret |-> None, _key_secret_first |-> model.key_secret_first,
     _key_secret_last |-> model.key_secret_last]

\* the constraints of ApiKeyModelMixinV1 a flush checks: key_id and key_hash
\* unique, the fragments not null
IntegrityError(table, model) ==
    \/ \E i \in DOMAIN table \ {model.id_} :
          table[i].key_id = model.key_id \/ table[i].key_hash = model.key_hash
    \/ model.key_secret_first = None
    \/ model.key_secret_last = None

\* SqlAlchemyApiKeyRepository.create
sql_create(table, entity) ==
    IF IntegrityError(table, _auto_to_model(entity, None))
    THEN [res |-> "IntegrityError", table |-> table]
    ELSE [res |-> "Ok", table |-> repo_create(table, _auto_to_model(entity, None))]

\* SqlAlchemyApiKeyRepository.update
sql_update(table, entity) ==
    IF entity.id_ \notin DOMAIN table THEN [res |-> "KeyNotFound", table |-> table]
    ELSE IF IntegrityError(table, _auto_to_model(entity, table[entity.id_]))
    THEN [res |-> "IntegrityError", table |-> table]
    ELSE [res |-> "Ok", table |-> repo_update(table, _auto_to_model(entity, table[entity.id_]))]

\* the changes a caller makes to an entity before update()
StoreEdits ==
    {[field |-> "is_active", b |-> b, k |-> <<>>, h |-> <<>>] : b \in BOOLEAN}
    \cup {[field |-> "key_id", b |-> TRUE, k |-> k, h |-> <<>>] : k \in KeyIds}
    \cup {[field |-> "key_hash", b |-> TRUE, k |-> <<>>, h |-> hash(x)] : x \in StoreSecrets}

StoreEdited(entity, edit) ==
    CASE edit.field = "is_active" -> [entity EXCEPT !.is_active = edit.b]
      [] edit.field = "key_id" -> [entity EXCEPT !.key_id = edit.k]
      [] edit.field = "key_hash" -> [entity EXCEPT !.key_hash = edit.h]

InitStore ==
    /\ now = 0
    /\ nextId = 1
    /\ repoU = << >>
    /\ repoC = << >>
    /\ cache = << >>
    /\ index = << >>
    /\ nops = 0
    /\ last = NoCall
    /\ tasks = [p \in Tasks |-> IdleTask]
    /\ NoStores
    /\ NoPure

\* create(key_id=..., key_secret=...) on a service over each repository
StoreCreate ==
    /\ nextId <= MaxRows
    /\ \E key_id \in KeyIds, secret \in StoreSecrets :
          LET entity == entity_factory(nextId, key_id, hash(secret), secret, TRUE, NoTime, {})
              sql == sql_create(rows, entity)
          IN /\ _store' = repo_create(_store, entity)
             /\ rows' = sql.table
             /\ ret' = [NoReturn EXCEPT !.op = "create", !.id = nextId, !.key_id = key_id,
                                        !.resM = "Ok", !.resS = sql.res]
    /\ nextId' = nextId + 1
    /\ UNCHANGED <<now, pipeVars, pureVars>>

\* update(entity) on both services: the entity is the one the repository
\* holds or returns for the id, with one field changed by the caller
StoreUpdate ==
    /\ \E id_ \in 1..MaxRows, edit \in StoreEdits :
          LET mem == IF id_ \in DOMAIN _store
                     THEN svc_update(_store, StoreEdited(_store[id_], edit))
                     ELSE svc_update(_store, Absent(id_))
              sql == IF id_ \in DOMAIN rows
                     THEN sql_update(rows, StoreEdited(_auto_to_domain(rows[id_]), edit))
                     ELSE sql_update(rows, Absent(id_))
          IN /\ _store' = mem.store
             /\ rows' = sql.table
             /\ ret' = [NoReturn EXCEPT !.op = "update", !.id = id_, !.key_id = edit.field,
                                        !.resM = mem.res.kind, !.resS = sql.res]
    /\ UNCHANGED <<now, nextId, pipeVars, pureVars>>

\* delete_by_id(id_) on both services
StoreDelete ==
    /\ \E id_ \in 1..MaxRows :
          /\ _store' = svc_delete_by_id(_store, id_).store
          /\ rows' = svc_delete_by_id(rows, id_).store
          /\ ret' = [NoReturn EXCEPT !.op = "delete", !.id = id_,
                                     !.resM = svc_delete_by_id(_store, id_).res.kind,
                                     !.resS = svc_delete_by_id(rows, id_).res.kind]
    /\ UNCHANGED <<now, nextId, pipeVars, pureVars>>

\* the caller reads entity.key_secret on the object create() returned
ReadKeySecret ==
    /\ \E id_ \in DOMAIN _store :
          /\ _store' = [_store EXCEPT ![id_] = key_secret_read(_store[id_]).entity]
          /\ ret' = [NoReturn EXCEPT !.op = "key_secret", !.id = id_,
                                     !.value = key_secret_read(_store[id_]).value]
    /\ UNCHANGED <<now, nextId, rows, pipeVars, pureVars>>

\* the caller reads entity.key_secret_first on that object
ReadKeySecretFirst ==
    /\ \E id_ \in DOMAIN _store :
          ret' = [NoReturn EXCEPT !.op = "key_secret_first", !.id = id_,
                                  !.value = key_secret_first(_store[id_])]
    /\ UNCHANGED <<now, nextId, _store, rows, pipeVars, pureVars>>

\* the caller reads entity.key_secret_last on that object
ReadKeySecretLast ==
    /\ \E id_ \in DOMAIN _store :
          ret' = [NoReturn EXCEPT !.op = "key_secret_last", !.id = id_,
                                  !.value = key_secret_last(_store[id_])]
    /\ UNCHANGED <<now, nextId, _store, rows, pipeVars, pureVars>>

NextStore ==
    \/ StoreCreate \/ StoreUpdate \/ StoreDelete
    \/ ReadKeySecret \/ ReadKeySecretFirst \/ ReadKeySecretLast

SpecStore == InitStore /\ [][NextStore]_vars

\* ------------------------------------------ the errors verify_key raises
\* longest list of required scopes
MaxRequired == 2

\* one piece of an f-string: literal text, then an interpolated value
Part(text, value) == [text |-> text, value |-> value]

\* an exception: its class, the line that raises it, its message
Raised(type, site, message) == [type |-> type, site |-> site, message |-> message]

NotRaised == Raised("", "", << >>)

Static(type, site, text) == Raised(type, site, <<Part(text, << >>)>>)

\* sep.join(items)
RECURSIVE join(_, _)
join(items, sep) ==
    IF Len(items) = 0 THEN << >>
    ELSE IF Len(items) = 1 THEN items
    ELSE <<Head(items), sep>> \o join(Tail(items), sep)

\* str(id_) of the ids the model hands out
id_str(id_) == <<<<"1", "2", "3">>[id_]>>

\* the checks before the lookup, in either service
parse_raised(service, api_key) ==
    LET at(base, cached) == IF service = "cached" THEN cached ELSE base
    IN IF api_key = None
       THEN Static("KeyNotProvided", at("services/base.py:445", "services/cached.py:116"),
                   "Api key must be provided (not given)")
       ELSE IF IsBlank(api_key)
       THEN Static("KeyNotProvided", at("services/base.py:448", "services/cached.py:119"),
                   "Api key must be provided (empty)")
       ELSE IF Len(Split(api_key, DEFAULT_SEPARATOR)) # 3
       THEN Static("InvalidKey", "services/base.py:511",
                   "API key format is invalid (wrong number of segments).")
       ELSE IF Split(api_key, DEFAULT_SEPARATOR)[1] # DEFAULT_GLOBAL_PREFIX
       THEN Static("InvalidKey", at("services/base.py:453", "services/cached.py:126"),
                   "Api key is invalid (wrong global prefix)")
       ELSE NotRaised

\* ApiKeyService.get_by_key_id
get_by_key_id_raised(store, key_id) ==
    IF IsBlank(key_id)
    THEN Static("KeyNotProvided", "services/base.py:332",
                "No API key key_id provided (key_id cannot be empty)")
    ELSE IF repo_get_by_key_id(store, key_id) = {}
    THEN Raised("KeyNotFound", "services/base.py:337",
                <<Part("API key with key_id '", key_id), Part("' not found", << >>)>>)
    ELSE NotRaised

\* ApiKey.ensure_can_authenticate
ensure_can_authenticate_raised(entity, t) ==
    IF ~entity.is_active
    THEN Static("KeyInactive", "domain/entities.py:180", "API key is disabled.")
    ELSE IF entity.expires_at # NoTime /\ entity.expires_at < t
    THEN Static("KeyExpired", "domain/entities.py:183", "API key is expired.")
    ELSE NotRaised

\* variant: the mismatch message quotes the candidate secret
secret_raised_quoting(service, entity, key_secret) ==
    LET at(base, cached) == IF service = "cached" THEN cached ELSE base
    IN IF key_secret = << >>
       THEN Static("InvalidKey", at("services/base.py:484", "services/cached.py:158"),
                   "API key is invalid (empty secret)")
       ELSE IF ~verify(entity.key_hash, key_secret)
       THEN Raised("InvalidKey", at("services/base.py:487", "services/cached.py:161"),
                   <<Part("API key is invalid (hash mismatch): ", key_secret)>>)
       ELSE NotRaised

\* the secret checks of _verify_entity and of the cache-miss branch
secret_raised(service, entity, key_secret) ==
    LET at(base, cached) == IF service = "cached" THEN cached ELSE base
    IN IF key_secret = << >>
       THEN Static("InvalidKey", at("services/base.py:484", "services/cached.py:158"),
                   "API key is invalid (empty secret)")
       ELSE IF ~verify(entity.key_hash, key_secret)
       THEN Static("InvalidKey", at("services/base.py:487", "services/cached.py:161"),
                   "API key is invalid (hash mismatch)")
       ELSE NotRaised

\* variant: the missing scopes are listed in sorted order
scopes_raised_sorted(site, entity, required_scopes) ==
    LET missing == missing_scopes(entity, required_scopes)
        sorted == IF Len(missing) = 2 /\ missing[1] = "write" THEN <<missing[2], missing[1]>>
                  ELSE missing
    IN IF required_scopes # << >> /\ missing # << >>
       THEN Raised("InvalidScopes", site,
                   <<Part("API key is missing required scopes: ", join(sorted, ", "))>>)
       ELSE NotRaised

\* the scope check written out in both branches of the cached service
scopes_raised(site, entity, required_scopes) ==
    LET missing == missing_scopes(entity, required_scopes)
    IN IF required_scopes # << >> /\ missing # << >>
       THEN Raised("InvalidScopes", site,
                   <<Part("API key is missing required scopes: ", join(missing, ", "))>>)
       ELSE NotRaised

\* ApiKey.ensure_valid_scopes, as the specification words its error
ensure_valid_scopes_raised(entity, required_scopes) ==
    IF ensure_valid_scopes(entity, required_scopes) # ""
    THEN Raised("InvalidScopes", "domain/entities.py:ensure_valid_scopes",
                <<Part("", join(missing_scopes(entity, required_scopes), ", "))>>)
    ELSE NotRaised

\* the first of the exceptions that is raised
FirstRaised(seq) ==
    IF \A i \in DOMAIN seq : seq[i] = NotRaised THEN NotRaised
    ELSE seq[CHOOSE i \in DOMAIN seq : seq[i] # NotRaised /\ \A j \in 1..(i - 1) : seq[j] = NotRaised]

\* what ApiKeyService._verify_key raises
base_raised(store, api_key, required_scopes, t) ==
    IF parse_raised("base", api_key) # NotRaised THEN parse_raised("base", api_key)
    ELSE LET parts == Split(api_key, DEFAULT_SEPARATOR)
         IN IF get_by_key_id_raised(store, parts[2]) # NotRaised
            THEN get_by_key_id_raised(store, parts[2])
            ELSE LET entity == CHOOSE e \in repo_get_by_key_id(store, parts[2]) : TRUE
                 IN FirstRaised(<<ensure_can_authenticate_raised(entity, t),
                                  secret_raised("base", entity, parts[3]),
                                  ensure_valid_scopes_raised(entity, required_scopes)>>)

\* what CachedApiKeyService._verify_key raises
cached_raised(store, c, api_key, required_scopes, t) ==
    IF parse_raised("cached", api_key) # NotRaised THEN parse_raised("cached", api_key)
    ELSE LET parts == Split(api_key, DEFAULT_SEPARATOR)
             cache_key == _compute_cache_key(api_key)
         IN IF cache_key \in DOMAIN c
            THEN FirstRaised(<<ensure_can_authenticate_raised(c[cache_key], t),
                               scopes_raised("services/cached.py:141", c[cache_key], required_scopes),
                               IF c[cache_key].id_ \notin DOMAIN store
                               THEN Raised("KeyNotFound", "services/cached.py:147",
                                           <<Part("API key with ID '", id_str(c[cache_key].id_)),
                                             Part("' not found during touch update", << >>)>>)
                               ELSE NotRaised>>)
            ELSE IF get_by_key_id_raised(store, parts[2]) # NotRaised
            THEN get_by_key_id_raised(store, parts[2])
            ELSE LET entity == CHOOSE e \in repo_get_by_key_id(store, parts[2]) : TRUE
                 IN FirstRaised(<<ensure_can_authenticate_raised(entity, t),
                                  secret_raised("cached", entity, parts[3]),
                                  scopes_raised("services/cached.py:167", entity, required_scopes)>>)

raised_by_verify_key(service, store, c, api_key, required_scopes, t) ==
    IF service = "cached" THEN cached_raised(store, c, api_key, required_scopes, t)
    ELSE base_raised(store, api_key, required_scopes, t)

\* the class of the exception the service operators report for the same call
outcome_of_verify_key(service, store, c, api_key, required_scopes, t) ==
    LET kind == IF service = "cached"
                THEN cached_verify_key(store, c, << >>, api_key, required_scopes, t).res.kind
                ELSE _verify_key(store, api_key, required_scopes, t).res.kind
    IN IF kind = "Ok" THEN "" ELSE kind

\* ------------------------------------------ pure functions: codec, hashers
\* longest key_id and key_secret the generators are made to produce
MaxIdLen == 2

MaxSecretLen == 3

\* the non-empty strings over an alphabet, up to a length
Strings(alphabet, n) == UNION {[1..k -> alphabet] : k \in 1..n}

\* uuid4().hex draws from the hexadecimal digits
HexAlphabet == {"a", "1"}

\* secrets.token_urlsafe draws from letters, digits, "-" and "_"
UrlSafeAlphabet == {"A", "-", "_"}

\* separators and global prefixes a service is configured with; the first of
\* each is the default
Separators == {DEFAULT_SEPARATOR, ".", ":"}

GlobalPrefixes == {DEFAULT_GLOBAL_PREFIX, <<"x", "y">>}

CodecInputs ==
    {[fn |-> "codec", global_prefix |-> g, separator |-> sep, key_id |-> k, key_secret |-> x] :
        g \in GlobalPrefixes, sep \in Separators,
        k \in Strings(HexAlphabet, MaxIdLen), x \in Strings(UrlSafeAlphabet, MaxSecretLen)}

\* bytes of a password bcrypt uses
BCRYPT_MAX == 72

RECURSIVE Repeat(_, _)
Repeat(c, n) == IF n = 0 THEN << >> ELSE <<c>> \o Repeat(c, n - 1)

\* s[:n]
Take(s, n) == SubSeq(s, 1, IF Len(s) < n THEN Len(s) ELSE n)

\* the hashers: HMAC-SHA256, bcrypt of hasher/, bcrypt and Argon2 of domain/
Variants == {"hmac", "bcrypt", "domain_bcrypt", "domain_argon2"}

\* what bcrypt.checkpw does with more than BCRYPT_MAX bytes depends on the
\* installed library: older releases cut the password, newer ones raise
Libraries == {"truncates", "raises"}

_apply_pepper(api_key, pepper) == api_key \o pepper

\* bcrypt.hashpw on a password of at most BCRYPT_MAX bytes
bcrypt_hashpw(password, salt) == [alg |-> "bcrypt", salt |-> salt, digest |-> password]

\* bcrypt.checkpw
bcrypt_checkpw(password, hashed, lib) ==
    IF Len(password) > BCRYPT_MAX /\ lib = "raises" THEN "ValueError"
    ELSE IF Take(password, BCRYPT_MAX) = hashed.digest THEN "True"
    ELSE "False"

\* hash() of each hasher
hasher_hash(variant, pepper, secret, salt) ==
    CASE variant = "hmac" -> [alg |-> "hmac", salt |-> 0, digest |-> <<pepper, secret>>]
      [] variant \in {"bcrypt", "domain_bcrypt"} ->
            bcrypt_hashpw(Take(_apply_pepper(secret, pepper), BCRYPT_MAX), salt)
      [] variant = "domain_argon2" ->
            [alg |-> "argon2", salt |-> salt, digest |-> _apply_pepper(secret, pepper)]

\* verify() of each hasher
hasher_verify(variant, pepper, stored_hash, secret, lib) ==
    CASE variant = "hmac" ->
            IF hasher_hash("hmac", pepper, secret, 0) = stored_hash THEN "True" ELSE "False"
      [] variant = "bcrypt" ->
            bcrypt_checkpw(Take(_apply_pepper(secret, pepper), BCRYPT_MAX), stored_hash, lib)
      [] variant = "domain_bcrypt" ->
            bcrypt_checkpw(_apply_pepper(secret, pepper), stored_hash, lib)
      [] variant = "domain_argon2" ->
            IF stored_hash.digest = _apply_pepper(secret, pepper) THEN "True" ELSE "False"

Peppers == {<<"p">>, <<"q">>, <<"p", "q">>}

\* secrets short and around the bcrypt limit
HasherSecrets ==
    {<<"s">>} \cup {Repeat("x", n) : n \in (BCRYPT_MAX - 1)..(BCRYPT_MAX + 1)}

Salts == {1, 2}

HasherInputs ==
    {[fn |-> "hasher", variant |-> v, pepper |-> p1, other |-> p2, secret |-> x,
      salt |-> n, lib |-> l] :
        v \in Variants, p1 \in Peppers, p2 \in Peppers, x \in HasherSecrets,
        n \in Salts, l \in Libraries}

\* the scopes a key can hold and a caller can require
ScopeNames == {"read", "write"}

RequiredLists == UNION {[1..k -> ScopeNames] : k \in 0..MaxRequired}

\* key_secret of the one key in the repository, and the time of the calls
StoredSecret == <<"s">>

CallTime == 1

\* the service called, and whether its cache holds the right credential
ServiceModes == {<<"base", FALSE>>, <<"cached", FALSE>>, <<"cached", TRUE>>}

CandidateSecrets == {StoredSecret, <<"t">>, <<"u">>, << >>, <<"s", DEFAULT_SEPARATOR>>}

\* candidate credentials: right and wrong prefix, key_id and secret, a blank
\* key_id, an empty secret and a secret that holds the separator
VerifyInputs ==
    {[fn |-> "verify_key", service |-> m[1], stored |-> st, cached |-> m[2],
      is_active |-> a, expires_at |-> x, scopes |-> sc, required |-> r,
      global_prefix |-> g, key_id |-> k, key_secret |-> s1, other |-> s2] :
        m \in ServiceModes, st \in BOOLEAN, a \in BOOLEAN,
        x \in {NoTime, CallTime - 1}, sc \in SUBSET ScopeNames, r \in RequiredLists,
        g \in {DEFAULT_GLOBAL_PREFIX, <<"x">>}, k \in {<<"k">>, <<"j">>, <<" ">>},
        s1 \in CandidateSecrets, s2 \in CandidateSecrets}

\* the entity the repository or the cache holds for an input
StoredEntity(in) ==
    [id_ |-> 1, key_id |-> <<"k">>, key_hash |-> hash(StoredSecret),
     is_active |-> in.is_active, expires_at |-> in.expires_at,
     scopes |-> in.scopes, last_used_at |-> NoTime]

StoreOf(in) == IF in.stored THEN [i \in {1} |-> StoredEntity(in)] ELSE << >>

\* the cache after an earlier successful verification of the right credential
CacheOf(in) ==
    IF in.service = "cached" /\ in.cached
    THEN [k \in {_compute_cache_key(full_key_secret(DEFAULT_GLOBAL_PREFIX, <<"k">>,
                                                   StoredSecret, DEFAULT_SEPARATOR))} |->
            StoredEntity(in)]
    ELSE << >>

CredentialOf(in, key_secret) ==
    full_key_secret(in.global_prefix, in.key_id, key_secret, DEFAULT_SEPARATOR)

\* ------------------------------------------------ repository find / count
\* records in the table that find() and count() search
MaxStored == 2

\* the table in ascending created_at order: the n-th record was created n-th
Tables ==
    [1..MaxStored -> {[id_ |-> 0, is_active |-> a, scopes |-> sc] :
                          a \in BOOLEAN, sc \in SUBSET ScopeNames}]

TableOf(recs) == [n \in DOMAIN recs |-> [recs[n] EXCEPT !.id_ = n]]

\* ApiKeyFilter: is_active "any" stands for None, an empty scope list for a
\* criterion that is not set; ordering is by created_at
Filters ==
    {[is_active |-> a, scopes_contain_all |-> sa, scopes_contain_any |-> sy,
      limit |-> l, offset |-> o, order_desc |-> d] :
        a \in {"any", "true", "false"}, sa \in SUBSET ScopeNames, sy \in SUBSET ScopeNames,
        l \in 1..MaxStored, o \in 0..(MaxStored - 1), d \in BOOLEAN}

FindInputs == {[fn |-> "find", table |-> TableOf(t), filter |-> f] : t \in Tables, f \in Filters}

\* _apply_filter: the WHERE clauses of the statement
_apply_filter(model, filter) ==
    filter.is_active # "any" => model.is_active = (filter.is_active = "true")

\* the scope criteria, applied to entities in Python
scopes_match(entity, filter) ==
    /\ filter.scopes_contain_all # {} => filter.scopes_contain_all \subseteq entity.scopes
    /\ filter.scopes_contain_any # {} => filter.scopes_contain_any \cap entity.scopes # {}

Reverse(seq) == [n \in DOMAIN seq |-> seq[Len(seq) + 1 - n]]

\* ORDER BY created_at ASC / DESC
order_by(table, order_desc) == IF order_desc THEN Reverse(table) ELSE table

\* LIMIT limit OFFSET offset
limit_offset(seq, limit, offset) ==
    SubSeq(seq, offset + 1, IF offset + limit < Len(seq) THEN offset + limit ELSE Len(seq))

\* SqlAlchemyApiKeyRepository.find (DjangoApiKeyRepository.find alike)
find(table, filter) ==
    LET stmt == SelectSeq(order_by(table, filter.order_desc),
                          LAMBDA model : _apply_filter(model, filter))
        entities == limit_offset(stmt, filter.limit, filter.offset)
    IN SelectSeq(entities, LAMBDA e : scopes_match(e, filter))

\* SqlAlchemyApiKeyRepository.count (DjangoApiKeyRepository.count alike)
count(table, filter) ==
    IF filter.scopes_contain_all # {} \/ filter.scopes_contain_any # {}
    THEN Len(find(table, [filter EXCEPT !.limit = 999999, !.offset = 0]))
    ELSE Len(SelectSeq(table, LAMBDA model : _apply_filter(model, filter)))

\* the key_id and key_secret a caller passes to create()
CreateInputs ==
    {[fn |-> "create", key_id |-> k, key_secret |-> x] :
        k \in Strings(HexAlphabet, MaxIdLen), x \in Strings(UrlSafeAlphabet, MaxSecretLen)}

\* the values key_id_factory() can return
GeneratedKeyIds == Strings(HexAlphabet, MaxIdLen)

\* a well-formed API key in an environment variable, and the key_id that
\* key_id_factory() returns during the load
DotenvInputs ==
    {[fn |-> "dotenv", key_id |-> k, key_secret |-> x, generated |-> g] :
        k \in Strings(HexAlphabet, MaxIdLen),
        x \in Strings(UrlSafeAlphabet \ {DEFAULT_SEPARATOR}, MaxSecretLen),
        g \in GeneratedKeyIds}

\* load_dotenv for one variable: _get_parts on its value, then
\* create(name=key, key_secret=key_secret), whose key_id is a generated one
load_dotenv(store, id_, api_key, generated, t) ==
    LET parts == _get_parts(api_key, DEFAULT_SEPARATOR)
    IN IF parts.err # "" THEN Result(Err(parts.err), store, <<>>, <<>>)
       ELSE svc_create(store, id_, generated, parts.key_secret, TRUE, NoTime, {}, t)

InitPure ==
    /\ now = 0
    /\ nextId = 1
    /\ repoU = << >>
    /\ repoC = << >>
    /\ cache = << >>
    /\ index = << >>
    /\ nops = 0
    /\ last = NoCall
    /\ tasks = [p \in Tasks |-> IdleTask]
    /\ NoStores
    /\ input \in CodecInputs \cup HasherInputs \cup VerifyInputs \cup FindInputs \cup CreateInputs
                \cup DotenvInputs
    /\ output = Pending

PureFrame == UNCHANGED <<now, nextId, pipeVars, storeVars, input>>

\* encode a generated (key_id, key_secret), then _get_parts on the credential
EncodeThenSplit ==
    /\ input.fn = "codec" /\ output = Pending
    /\ output' = _get_parts(full_key_secret(input.global_prefix, input.key_id,
                                            input.key_secret, input.separator),
                            input.separator)
    /\ PureFrame

\* hash a secret, then verify it with the same hasher and with a hasher that
\* has another pepper
HashThenVerify ==
    /\ input.fn = "hasher" /\ output = Pending
    /\ LET stored == hasher_hash(input.variant, input.pepper, input.secret, input.salt)
       IN output' = [same |-> hasher_verify(input.variant, input.pepper, stored,
                                            input.secret, input.lib),
                     other |-> hasher_verify(input.variant, input.other, stored,
                                             input.secret, input.lib)]
    /\ PureFrame

\* verify_key on two credentials that differ in the secret only
VerifyTwice ==
    /\ input.fn = "verify_key" /\ output = Pending
    /\ output' = [a |-> raised_by_verify_key(input.service, StoreOf(input), CacheOf(input),
                                             CredentialOf(input, input.key_secret),
                                             input.required, CallTime),
                  b |-> raised_by_verify_key(input.service, StoreOf(input), CacheOf(input),
                                             CredentialOf(input, input.other),
                                             input.required, CallTime),
                  kind |-> outcome_of_verify_key(input.service, StoreOf(input), CacheOf(input),
                                                 CredentialOf(input, input.key_secret),
                                                 input.required, CallTime)]
    /\ PureFrame

\* find(filter) and count(filter) on one table
FindAndCount ==
    /\ input.fn = "find" /\ output = Pending
    /\ output' = [found |-> find(input.table, input.filter),
                  count |-> count(input.table, input.filter)]
    /\ PureFrame

\* create(key_id=..., key_secret=...) on an empty repository, then verify_key
\* on the credential create() returned, on the plain and on the cached service
CreateThenVerify ==
    /\ input.fn = "create" /\ output = Pending
    /\ LET created == svc_create(<< >>, 1, input.key_id, input.key_secret, TRUE, NoTime,
                                 {}, CallTime)
           api_key == full_key_secret(DEFAULT_GLOBAL_PREFIX, input.key_id, input.key_secret,
                                      DEFAULT_SEPARATOR)
       IN output' = [created |-> created.res,
                     api_key |-> api_key,
                     plain |-> _verify_key(created.store, api_key, <<>>, CallTime).res,
                     cached |-> cached_verify_key(created.store, << >>, << >>, api_key,
                                                  <<>>, CallTime).res]
    /\ PureFrame

\* load_dotenv() on an empty repository with one variable set, then
\* verify_key on that variable's value, on the plain and on the cached service
LoadDotenvThenVerify ==
    /\ input.fn = "dotenv" /\ output = Pending
    /\ LET api_key == full_key_secret(DEFAULT_GLOBAL_PREFIX, input.key_id, input.key_secret,
                                      DEFAULT_SEPARATOR)
           loaded == load_dotenv(<< >>, 1, api_key, input.generated, CallTime)
       IN output' = [loaded |-> loaded.res,
                     stored |-> loaded.store,
                     plain |-> _verify_key(loaded.store, api_key, <<>>, CallTime).res,
                     cached |-> cached_verify_key(loaded.store, << >>, << >>, api_key,
                                                  <<>>, CallTime).res]
    /\ PureFrame

NextPure ==
    \/ EncodeThenSplit \/ HashThenVerify \/ VerifyTwice \/ FindAndCount
    \/ CreateThenVerify \/ LoadDotenvThenVerify

SpecPure == InitPure /\ [][NextPure]_vars

\* ------------------------------------------------------------------ claims
\* a step that is a verify_key call
VerifyStep == nops' = nops + 1 /\ last'.op = "verify"

\* the entity the repository returns for the key_id segment of a credential
Looked(store, api_key) ==
    IF api_key = None \/ Len(Split(api_key, DEFAULT_SEPARATOR)) # 3 THEN {}
    ELSE repo_get_by_key_id(store, Split(api_key, DEFAULT_SEPARATOR)[2])

SecretOf(api_key) == Split(api_key, DEFAULT_SEPARATOR)[3]

\* C1: on the cached service verify_key succeeds only for a credential whose
\* secret verifies against the hash stored for its key_id, and a credential
\* with the key_id of a usable key but a wrong secret is a cache miss that
\* fails with InvalidKey.
C1_NoCacheBypass ==
    [][VerifyStep =>
        /\ last'.resC.kind = "Ok" =>
              \E e \in Looked(repoC, last'.api_key) : verify(e.key_hash, SecretOf(last'.api_key))
        /\ \A e \in Looked(repoC, last'.api_key) :
              (/\ ~verify(e.key_hash, SecretOf(last'.api_key))
               /\ ensure_can_authenticate(e, now) = "") =>
                  ~last'.hit /\ last'.resC.kind = "InvalidKey"]_vars

\* C2: every verify_key call has the same outcome on the cached service as on
\* the uncached service run over the same sequence of calls.
C2_SameOutcome ==
    last.op = "verify" => last.resC.kind = last.resU.kind /\ last.resC.id = last.resU.id

\* C3: once a key is cached under a credential, an update() that disables it,
\* sets its expiry to the past or removes a scope makes the very next
\* verify_key with that credential raise KeyInactive, KeyExpired or
\* InvalidScopes.
C3_UpdateSeenByNextVerify ==
    [][(/\ VerifyStep
        /\ last.op = "update" /\ last.resC.kind = "Ok"
        /\ last'.api_key \in last.cached
        /\ last.id \in DOMAIN repoC) =>
        LET e == repoC[last.id]
        IN /\ (last.field = "is_active" /\ ~e.is_active) => last'.resC.kind = "KeyInactive"
           /\ (last.field = "expires_at" /\ ensure_can_authenticate(e, now) = "KeyExpired")
                 => last'.resC.kind = "KeyExpired"
           /\ (/\ last.field = "scopes" /\ ensure_can_authenticate(e, now) = ""
               /\ missing_scopes(e, last'.required) # <<>>)
                 => last'.resC.kind = "InvalidScopes"]_vars

\* the entity the update()/delete_by_id() call was given
Written == tasks["w"].entity

\* every coroutine has returned, the update()/delete_by_id() call successfully
Quiescent == WriterDone /\ tasks["w"].res = "Ok" /\ \A p \in Verifiers : tasks[p].pc = "idle"

\* a cache entry that still holds the entity as it was before the call
StaleEntry(e) ==
    \/ tasks["w"].op = "delete"
    \/ e.is_active # Written.is_active
    \/ e.scopes # Written.scopes
    \/ e.expires_at # Written.expires_at

\* C4: whatever the interleaving of an update() or delete_by_id() with
\* concurrent verify_key calls on the same key, once the call has returned
\* and the verifications in flight have finished no cache entry holds the
\* entity as it was before the call, and no verify_key started after the
\* call returned succeeds unless the entity as written allows it.
C4_NoStaleEntryAfterRace ==
    /\ Quiescent => \A ck \in DOMAIN cache : ~StaleEntry(cache[ck])
    /\ \A p \in Verifiers :
          tasks[p].late /\ tasks[p].pc = "idle" /\ tasks[p].res = "Ok"
             => tasks["w"].op = "update" /\ hit_checks(Written, tasks[p].required, now) = ""

\* what the claimed stage order yields for a call on the uncached service;
\* blankKeyId is the error claimed for a credential whose key_id segment is
\* blank ("" to let it fall through to the lookup)
StageOutcome(store, api_key, required_scopes, t, blankKeyId) ==
    IF api_key = None \/ IsBlank(api_key) THEN "KeyNotProvided"
    ELSE LET parts == Split(api_key, DEFAULT_SEPARATOR)
         IN IF Len(parts) # 3 \/ parts[1] # DEFAULT_GLOBAL_PREFIX THEN "InvalidKey"
            ELSE IF IsBlank(parts[2]) /\ blankKeyId # "" THEN blankKeyId
            ELSE IF \A i \in DOMAIN store : store[i].key_id # parts[2] THEN "KeyNotFound"
            ELSE LET e == CHOOSE x \in Looked(store, api_key) : TRUE
                 IN IF ~e.is_active THEN "KeyInactive"
                    ELSE IF e.expires_at # NoTime /\ e.expires_at < t THEN "KeyExpired"
                    ELSE IF parts[3] = <<>> \/ e.key_hash # hash(parts[3]) THEN "InvalidKey"
                    ELSE IF ensure_valid_scopes(e, required_scopes) # ""
                    THEN ensure_valid_scopes(e, required_scopes)
                    ELSE "Ok"

\* C5 as stated: verify_key reports the first failing stage in the order
\* presence, format and prefix, lookup, inactive, expired, secret, scopes; no
\* stage but the first yields KeyNotProvided.
C5_StageOrderAsStated ==
    [][VerifyStep =>
        last'.resU.kind = StageOutcome(repoU, last'.api_key, last'.required, now, "")]_vars

\* C5 amended: the same order, with one more stage between the prefix check
\* and the lookup: a blank key_id segment yields KeyNotProvided.
C5_StageOrder ==
    [][VerifyStep =>
        last'.resU.kind =
            StageOutcome(repoU, last'.api_key, last'.required, now, "KeyNotProvided")]_vars

\* an inactive and expired key, presented with a wrong secret, is KeyInactive
C5_Witness ==
    /\ last.op = "verify" /\ last.resU.kind = "KeyInactive"
    /\ SecretOf(last.api_key) = WrongSecret
    /\ \E i \in DOMAIN repoU :
          ensure_can_authenticate([repoU[i] EXCEPT !.is_active = TRUE], now) = "KeyExpired"

\* a non-blank credential is malformed when it has not exactly three
\* segments, has an empty segment, or has another first segment than the
\* global prefix
WrongShape(api_key) ==
    \/ Len(Split(api_key, DEFAULT_SEPARATOR)) # 3
    \/ Split(api_key, DEFAULT_SEPARATOR)[1] # DEFAULT_GLOBAL_PREFIX

Malformed(api_key) ==
    \/ WrongShape(api_key)
    \/ \E i \in 1..3 : Split(api_key, DEFAULT_SEPARATOR)[i] = <<>>

NonBlank(api_key) == api_key # None /\ ~IsBlank(api_key)

\* C6 as stated: a non-blank credential that does not split into exactly three
\* non-empty segments, or has the wrong global prefix, raises InvalidKey
\* before any repository call.
C6_MalformedAsStated ==
    (last.op = "verify" /\ NonBlank(last.api_key) /\ Malformed(last.api_key)) =>
        /\ last.resU.kind = "InvalidKey" /\ last.rcallsU = <<>>
        /\ last.resC.kind = "InvalidKey" /\ last.rcallsC = <<>>

\* C6 amended: a non-blank credential that does not split into exactly three
\* segments, or has the wrong global prefix, raises InvalidKey before any
\* repository call; an empty key_id segment raises KeyNotProvided, also before
\* any repository call; an empty secret segment is looked up like any other.
C6_Malformed ==
    (last.op = "verify" /\ NonBlank(last.api_key)) =>
        /\ WrongShape(last.api_key) =>
              /\ last.resU.kind = "InvalidKey" /\ last.rcallsU = <<>>
              /\ last.resC.kind = "InvalidKey" /\ last.rcallsC = <<>>
        /\ (~WrongShape(last.api_key) /\ Split(last.api_key, DEFAULT_SEPARATOR)[2] = <<>>) =>
              /\ last.resU.kind = "KeyNotProvided" /\ last.rcallsU = <<>>
              /\ last.resC.kind = "KeyNotProvided" /\ last.rcallsC = <<>>
        /\ (~WrongShape(last.api_key) /\ Split(last.api_key, DEFAULT_SEPARATOR)[2] # <<>>) =>
              /\ Len(last.rcallsU) >= 1 /\ last.rcallsU[1] = "get_by_key_id"
              /\ last.hit \/ (Len(last.rcallsC) >= 1 /\ last.rcallsC[1] = "get_by_key_id")

\* a credential with four segments was rejected while a key is stored
C6_Witness ==
    /\ last.op = "verify" /\ Len(Split(last.api_key, DEFAULT_SEPARATOR)) = 4
    /\ last.resC.kind = "InvalidKey" /\ DOMAIN repoC # {}

\* C7: a verify_key that raises KeyNotProvided, InvalidKey, KeyNotFound at
\* lookup, KeyInactive, KeyExpired or InvalidScopes leaves the repository and,
\* on the cached service, the cache as they were.
AtTouch(res, rcalls) ==
    res.kind = "KeyNotFound" /\ \E i \in DOMAIN rcalls : rcalls[i] = "update"

C7_ErrorsChangeNothing ==
    [][VerifyStep =>
        /\ (last'.resU.kind \in ErrorKinds /\ ~AtTouch(last'.resU, last'.rcallsU))
              => repoU' = repoU
        /\ (last'.resC.kind \in ErrorKinds /\ ~AtTouch(last'.resC, last'.rcallsC))
              => repoC' = repoC /\ cache' = cache /\ index' = index]_vars

\* a cached, used key was refused for a missing scope on a cache hit
C7_Witness ==
    /\ last.op = "verify" /\ last.hit /\ last.resC.kind = "InvalidScopes"
    /\ last.resU.kind = "InvalidScopes"
    /\ \E i \in DOMAIN repoC : repoC[i].last_used_at # NoTime

\* C8: a verify_key call invokes hasher.verify at most once, with the stored
\* hash and the secret segment, and only for a key that the lookup returned
\* and that is active and not expired.
HasherCallsOk(store, api_key, hcalls, t) ==
    /\ Len(hcalls) <= 1
    /\ \A n \in DOMAIN hcalls :
          \E e \in Looked(store, api_key) :
             /\ hcalls[n] = <<e.key_hash, SecretOf(api_key)>>
             /\ e.is_active
             /\ ~(e.expires_at # NoTime /\ e.expires_at < t)

C8_HasherAfterLiveness ==
    [][VerifyStep =>
        /\ HasherCallsOk(repoU, last'.api_key, last'.hcallsU, now)
        /\ HasherCallsOk(repoC, last'.api_key, last'.hcallsC, now)]_vars

\* an expired key was presented with the right secret and no hash was computed
C8_Witness ==
    /\ last.op = "verify" /\ last.resU.kind = "KeyExpired" /\ last.resC.kind = "KeyExpired"
    /\ last.hcallsU = <<>> /\ last.hcallsC = <<>>
    /\ SecretOf(last.api_key) \in Secrets

\* C9: a verify_key call that fails sleeps exactly once, between rrd and
\* 2*rrd, and raises the exception of the pipeline; one that succeeds does
\* not sleep.
JitterOk(pipe, res, sleeps) ==
    /\ res = pipe
    /\ pipe.kind = "Ok" => sleeps = <<>>
    /\ pipe.kind # "Ok" => Len(sleeps) = 1 /\ Rrd <= sleeps[1] /\ sleeps[1] <= 2 * Rrd

C9_JitterOnErrorOnly ==
    last.op = "verify" =>
        /\ JitterOk(last.pipeU, last.resU, last.sleepsU)
        /\ JitterOk(last.pipeC, last.resC, last.sleepsC)

\* a call that failed before the lookup slept the longest delay
C9_Witness ==
    /\ last.op = "verify" /\ last.resU.kind = "KeyNotProvided"
    /\ last.sleepsU = <<2 * Rrd>> /\ last.sleepsC = <<2 * Rrd>>

\* C10: a successful verify_key, on a cache miss or a cache hit, returns the
\* entity of the credential's key with last_used_at set to the current time
\* and stores it; when the key was last used earlier, the stored time grows.
TouchedOk(storeAfter, api_key, res, prev, t) ==
    res.kind = "Ok" =>
        /\ res.lu = t
        /\ res.id \in DOMAIN storeAfter
        /\ storeAfter[res.id].last_used_at = t
        /\ storeAfter[res.id].key_id = Split(api_key, DEFAULT_SEPARATOR)[2]
        /\ (prev # NoTime /\ prev < t) => storeAfter[res.id].last_used_at > prev

C10_SuccessTouches ==
    [][VerifyStep =>
        /\ TouchedOk(repoU', last'.api_key, last'.resU, last'.prevU, now)
        /\ TouchedOk(repoC', last'.api_key, last'.resC, last'.prevC, now)]_vars

\* a second successful verification, a cache hit, made later than the first
C10_Witness ==
    /\ last.op = "verify" /\ last.hit /\ last.resC.kind = "Ok" /\ last.resU.kind = "Ok"
    /\ last.prevC # NoTime /\ last.prevC < last.resC.lu

\* C11: after create() no record of either repository holds the plaintext
\* secret: the in-memory objects have no _key_secret, and no column of a row
\* is a secret.
C11_NoPlaintextStored ==
    /\ \A i \in DOMAIN _store : _store[i]._key_secret = None
    /\ \A i \in DOMAIN rows :
          /\ rows[i].key_hash \notin StoreSecrets
          /\ rows[i].key_secret_first \notin StoreSecrets
          /\ rows[i].key_secret_last \notin StoreSecrets

\* C12: no update() changes the key_id or the key_hash stored for a record,
\* in the in-memory or in the SQL repository.
C12_UpdateKeepsKeyIdAndHash ==
    [][ret'.op = "update" =>
        /\ \A i \in DOMAIN _store \cap DOMAIN _store' :
              _store'[i].key_id = _store[i].key_id /\ _store'[i].key_hash = _store[i].key_hash
        /\ \A i \in DOMAIN rows \cap DOMAIN rows' :
              rows'[i].key_id = rows[i].key_id /\ rows'[i].key_hash = rows[i].key_hash]_vars

\* no two records of a repository have the same key_id
UniqueKeyIds(table) ==
    \A i, j \in DOMAIN table : table[i].key_id = table[j].key_id => i = j

\* C13: no two stored entities have the same key_id, in the in-memory and in
\* the SQL repository alike.
C13_KeyIdUnique == UniqueKeyIds(_store) /\ UniqueKeyIds(rows)

\* a call that is create() or update()
WriteStep == nops' = nops + 1 /\ last'.op \in {"create", "update"}

\* record i of the store after the call has an expires_at in the past that it
\* did not have before the call
NewlyPast(before, after, i, t) ==
    /\ after[i].expires_at # NoTime /\ after[i].expires_at < t
    /\ i \notin DOMAIN before \/ before[i].expires_at # after[i].expires_at

C15_CodecRoundTrip ==
    (input.fn = "codec" /\ output # Pending) =>
        output = [err |-> "", global_prefix |-> input.global_prefix,
                  key_id |-> input.key_id, key_secret |-> input.key_secret]

\* C16: for every hasher, pepper and non-empty secret, also one whose peppered
\* form exceeds the bcrypt limit, verify(hash(s), s) is true.
C16_HashThenVerify ==
    (input.fn = "hasher" /\ output # Pending) => output.same = "True"

\* C17: for every hasher and non-empty secret of any length, a hash made
\* with one pepper does not verify under a hasher with a different pepper.
C17_OtherPepperFails ==
    (input.fn = "hasher" /\ output # Pending /\ input.other # input.pepper) =>
        output.other = "False"

\* the exception classes agree with the outcomes of the service operators
RaisedMatchesOutcome ==
    (input.fn = "verify_key" /\ output # Pending) => output.a.type = output.kind

\* sub occurs in s
Contains(s, sub) ==
    \E i \in 0..(Len(s) - Len(sub)) : SubSeq(s, i + 1, i + Len(sub)) = sub

\* C18: no message of an error raised by verify_key holds the candidate
\* secret or the full credential, and two credentials that differ only in
\* the secret and fail at the same place raise the same class and message.
C18_ErrorsDoNotLeakSecret ==
    (input.fn = "verify_key" /\ output # Pending) =>
        /\ \A i \in DOMAIN output.a.message :
              /\ ~Contains(output.a.message[i].value, CredentialOf(input, input.key_secret))
              /\ input.key_secret # << >> =>
                    ~Contains(output.a.message[i].value, input.key_secret)
        /\ (output.a # NotRaised /\ output.a.site = output.b.site) =>
              (output.a.type = output.b.type /\ output.a.message = output.b.message)

\* two different wrong secrets for a usable key, both refused as a mismatch
C18_Witness ==
    /\ input.fn = "verify_key" /\ output # Pending
    /\ input.key_secret # input.other
    /\ output.a.site = "services/base.py:487"
    /\ output.b.site = "services/base.py:487"

\* the key of the input is usable and the credential carries its secret
UsableKey ==
    /\ input.fn = "verify_key" /\ output # Pending
    /\ input.service = "cached"
    /\ input.stored \/ input.cached
    /\ input.is_active /\ input.expires_at = NoTime
    /\ input.global_prefix = DEFAULT_GLOBAL_PREFIX /\ input.key_id = <<"k">>
    /\ input.key_secret = StoredSecret

\* the scopes of R that are absent from S, in the order of R
AbsentScopes(R, S) == SelectSeq(R, LAMBDA scope : scope \notin S)

\* C20: on the cache-miss and on the cache-hit path alike, verify_key on a
\* usable key with scopes S and required scopes R raises InvalidScopes
\* exactly when some scope of R is not in S; its message then lists exactly
\* the absent scopes of R, in the order of R; an empty R never fails on scopes.
C20_InvalidScopesNamesMissing ==
    UsableKey =>
        LET absent == AbsentScopes(input.required, input.scopes)
        IN /\ (output.a.type = "InvalidScopes") <=>
                  (\E i \in DOMAIN input.required : input.required[i] \notin input.scopes)
           /\ output.a.type = "InvalidScopes" =>
                 /\ Len(output.a.message) = 1
                 /\ Split(output.a.message[1].value, ", ") =
                        [i \in 1..Len(absent) |-> <<absent[i]>>]
                 /\ output.a.site = IF input.cached THEN "services/cached.py:141"
                                    ELSE "services/cached.py:167"
           /\ input.required = << >> => output.a.type # "InvalidScopes"

\* a cache hit on a key without scopes, two scopes required, write first
C20_Witness ==
    /\ UsableKey /\ input.cached
    /\ input.required = <<"write", "read">> /\ input.scopes = {}
    /\ output.a.type = "InvalidScopes"

\* C19: on an entity created with a plaintext secret, the first read of
\* key_secret returns the secret and every later read returns null, while
\* key_secret_first and key_secret_last return the first and last
\* FragmentLen characters of the secret, before and after that read.
C19_ReadOnceFragmentsPersist ==
    [][ /\ ret'.op = "key_secret" =>
              /\ ret'.value = _store[ret'.id]._key_secret
              /\ _store'[ret'.id]._key_secret = None
        /\ ret'.op = "key_secret_first" =>
              /\ ret'.value \in {Take(x, FragmentLen) : x \in StoreSecrets}
              /\ _store[ret'.id]._key_secret # None =>
                    ret'.value = Take(_store[ret'.id]._key_secret, FragmentLen)
        /\ ret'.op = "key_secret_last" =>
              /\ ret'.value \in {SubSeq(x, Len(x) - FragmentLen + 1, Len(x)) : x \in StoreSecrets}
              /\ _store[ret'.id]._key_secret # None =>
                    ret'.value = SubSeq(_store[ret'.id]._key_secret,
                                        Len(_store[ret'.id]._key_secret) - FragmentLen + 1,
                                        Len(_store[ret'.id]._key_secret))
      ]_vars

\* a step that is an update() or a delete_by_id() call
InvalidatingStep == nops' = nops + 1 /\ last'.op \in {"update", "delete"}

\* key_id of the entity the call was about: the one given to update(), the
\* one get_by_id returned to delete_by_id()
InvalidatedKeyId ==
    IF last'.op = "update" THEN repoC'[last'.id].key_id ELSE repoC[last'.id].key_id

\* a mapping without one of its keys
Without(f, key) == [k \in DOMAIN f \ {key} |-> f[k]]

\* C21: update() and delete_by_id() on the cached service leave the cache
\* as it is when the repository reports KeyNotFound; after a successful
\* repository operation they remove exactly the index entry of the entity's
\* key_id and the primary entry it points to, and change nothing, without
\* an error, when there is no such index entry.
C21_InvalidationIsExact ==
    [][InvalidatingStep =>
        /\ last'.resC.kind \in {"Ok", "KeyNotFound"}
        /\ last'.resC.kind = "KeyNotFound" =>
              cache' = cache /\ index' = index /\ repoC' = repoC
        /\ last'.resC.kind = "Ok" =>
              LET index_key == _get_index_key(InvalidatedKeyId)
              IN IF index_key \in DOMAIN index
                 THEN /\ index' = Without(index, index_key)
                      /\ cache' = Without(cache, index[index_key])
                 ELSE cache' = cache /\ index' = index]_vars

\* an update() has removed the entry a verify_key had cached for the key
C21_Witness ==
    /\ last.op = "update" /\ last.resC.kind = "Ok"
    /\ last.cached # {}
    /\ cache = << >> /\ index = << >>

\* a mapping with one key set
With(f, key, value) == [k \in DOMAIN f \cup {key} |-> IF k = key THEN value ELSE f[k]]

\* C22: a verify_key that succeeds on a cache miss leaves the cache mapping
\* SHA-256(credential) to the verified entity and the index key of its
\* key_id to that cache key, the entity entry being set before the index
\* entry; every verify_key reads the cache at most once, under the hash of
\* the full credential.
C22_MissFillsCacheThenIndex ==
    [][VerifyStep =>
        LET cache_key == _compute_cache_key(last'.api_key)
        IN /\ \A n \in DOMAIN last'.ccalls :
                 last'.ccalls[n].op = "get" => n = 1 /\ last'.ccalls[n].key = cache_key
           /\ (last'.resC.kind = "Ok" /\ ~last'.hit) =>
                 LET key_id == Split(last'.api_key, DEFAULT_SEPARATOR)[2]
                     entity == repoC'[last'.resC.id]
                 IN /\ entity.key_id = key_id
                    /\ verify(entity.key_hash, SecretOf(last'.api_key))
                    /\ cache' = With(cache, cache_key, entity)
                    /\ index' = With(index, _get_index_key(key_id), cache_key)
                    /\ last'.ccalls = <<CacheCall("get", cache_key),
                                        CacheCall("set", cache_key),
                                        CacheCall("set", _get_index_key(key_id))>>]_vars

\* a first verify_key on a fresh key has filled an empty cache
C22_Witness ==
    /\ last.op = "verify" /\ last.resC.kind = "Ok" /\ ~last.hit
    /\ Len(last.ccalls) = 3
    /\ DOMAIN cache = {_compute_cache_key(last.api_key)}
    /\ DOMAIN index = {_get_index_key(Split(last.api_key, DEFAULT_SEPARATOR)[2])}

\* C23: a verify_key that finds the credential in the cache calls neither
\* hasher.verify nor a repository lookup and writes nothing to the cache; it
\* checks the active flag, the expiry and the scopes of the cached entity,
\* then touches that entity and writes it through the repository.
C23_HitSkipsHashAndLookup ==
    [][(VerifyStep /\ last'.hit) =>
        LET cache_key == _compute_cache_key(last'.api_key)
            e == cache[cache_key]
            expired == e.expires_at # NoTime /\ e.expires_at < now
            lacking == \E n \in DOMAIN last'.required : last'.required[n] \notin e.scopes
        IN /\ last'.hcallsC = << >>
           /\ \A n \in DOMAIN last'.rcallsC : last'.rcallsC[n] = "update"
           /\ last'.ccalls = <<CacheCall("get", cache_key)>>
           /\ cache' = cache /\ index' = index
           /\ IF ~e.is_active THEN last'.resC.kind = "KeyInactive"
              ELSE IF expired THEN last'.resC.kind = "KeyExpired"
              ELSE IF lacking THEN last'.resC.kind = "InvalidScopes"
              ELSE /\ last'.rcallsC = <<"update">>
                   /\ IF e.id_ \in DOMAIN repoC
                      THEN /\ last'.resC = Ok([e EXCEPT !.last_used_at = now])
                           /\ repoC' = [repoC EXCEPT ![e.id_] = [e EXCEPT !.last_used_at = now]]
                      ELSE last'.resC.kind = "KeyNotFound" /\ repoC' = repoC
           /\ last'.resC.kind \in {"KeyInactive", "KeyExpired", "InvalidScopes"} =>
                 last'.rcallsC = << >> /\ repoC' = repoC]_vars

\* a hit at a later time than the miss: the stored record carries the new
\* last_used_at, the cached entity the old one
C23_Witness ==
    /\ last.op = "verify" /\ last.hit /\ last.resC.kind = "Ok"
    /\ last.rcallsC = <<"update">>
    /\ repoC[last.resC.id].last_used_at = now
    /\ cache[_compute_cache_key(last.api_key)].last_used_at < now

\* the records of a table that satisfy every criterion of a filter, in the
\* requested order
Matching(table, filter) ==
    SelectSeq(order_by(table, filter.order_desc),
              LAMBDA e : _apply_filter(e, filter) /\ scopes_match(e, filter))

\* C24: for every filter, scope criteria included, count(filter) is the
\* number of stored records that satisfy all criteria, whatever limit and
\* offset, and find(filter) is the slice [offset, offset + limit) of those
\* records in the requested order.
C24_FindIsSliceOfMatching ==
    (input.fn = "find" /\ output # Pending) =>
        LET matching == Matching(input.table, input.filter)
        IN /\ output.count = Len(matching)
           /\ output.found = limit_offset(matching, input.filter.limit, input.filter.offset)

\* C25: the write by which verify_key persists the touch changes only
\* last_used_at: whatever the interleaving of verify_key calls, on a cache
\* hit or miss, with an update() of the same key, once all of them have
\* finished the stored record has the is_active, scopes and expires_at that
\* update() wrote.
C25_TouchKeepsUpdatedFields ==
    (Quiescent /\ tasks["w"].op = "update" /\ Written.id_ \in DOMAIN repoC) =>
        /\ repoC[Written.id_].is_active = Written.is_active
        /\ repoC[Written.id_].scopes = Written.scopes
        /\ repoC[Written.id_].expires_at = Written.expires_at

\* no call is in progress on the cached service
NoCallInProgress == \A p \in Tasks : tasks[p].pc = "idle"

\* C26: whenever no verify_key, update or delete_by_id call is in progress
\* on the cached service, every primary cache entry has an index entry for
\* its entity's key_id that points to it, after any interleaving of
\* concurrent calls.
C26_EveryEntryIndexed ==
    NoCallInProgress =>
        \A cache_key \in DOMAIN cache :
            /\ _get_index_key(cache[cache_key].key_id) \in DOMAIN index
            /\ index[_get_index_key(cache[cache_key].key_id)] = cache_key

\* delete_by_id(id) has just returned successfully on both services
DeleteReturned == last.op = "delete" /\ last.resU.kind = "Ok" /\ last.resC.kind = "Ok"

\* the next call is verify_key with a credential of the deleted key, one
\* under which the key had been verified before
VerifyOfDeleted == DeleteReturned /\ VerifyStep /\ last'.api_key \in last.cached

\* C27: once delete_by_id has returned for a key, a verify_key started
\* afterwards with that key's credential ends in KeyNotFound on the plain
\* and on the cached service, even when a stale primary cache entry is left.
C27_VerifyAfterDeleteIsKeyNotFound ==
    [][VerifyOfDeleted =>
          /\ last'.pipeU.kind = "KeyNotFound"
          /\ last'.pipeC.kind = "KeyNotFound"]_vars

\* the part of C27 that the services keep: such a call never succeeds
C27_VerifyAfterDeleteFails ==
    [][VerifyOfDeleted => last'.pipeU.kind # "Ok" /\ last'.pipeC.kind # "Ok"]_vars

\* verify_key's touch write finds the record gone
TouchOfDeleted(p) == tasks[p].pc = "touch" /\ tasks'[p].pc = "idle" /\ repoU = << >>

\* C28: on ApiKeyService, a verify_key whose record was deleted between the
\* lookup and the touch write (the repository update returns absent) raises
\* KeyNotFound instead of returning success.
C28_TouchOfDeletedRaises ==
    [][\A p \in Verifiers : TouchOfDeleted(p) => tasks'[p].res = "KeyNotFound"]_vars

\* the touch write of a verify_key on the cached service finds the record gone
CachedTouchOfDeleted(p) ==
    /\ tasks[p].pc \in {"hit_update", "miss_update"}
    /\ tasks'[p].pc # tasks[p].pc
    /\ repoC = << >>

\* the part of C28 about CachedApiKeyService: the same call raises KeyNotFound
C28_CachedTouchOfDeletedRaises ==
    [][\A p \in Verifiers : CachedTouchOfDeleted(p) =>
          tasks'[p].pc = "idle" /\ tasks'[p].res = "KeyNotFound"]_vars

\* C29: for every key_id and key_secret that create() accepts, supplied by
\* the caller included, verify_key on the credential create() returned
\* succeeds for an active, unexpired key and returns the created entity's id.
C29_CreatedCredentialVerifies ==
    (input.fn = "create" /\ output # Pending /\ output.created.kind = "Ok") =>
        /\ output.plain.kind = "Ok" /\ output.plain.id = output.created.id
        /\ output.cached.kind = "Ok" /\ output.cached.id = output.created.id

\* C30: after load_dotenv(), the record stored for a well-formed API key of
\* an environment variable has the key_id and the secret of that value, and
\* verify_key accepts the value.
C30_DotenvKeyVerifies ==
    (input.fn = "dotenv" /\ output # Pending /\ output.loaded.kind = "Ok") =>
        /\ output.stored[1].key_id = input.key_id
        /\ output.stored[1].key_hash = hash(input.key_secret)
        /\ output.plain.kind = "Ok"
        /\ output.cached.kind = "Ok"

====
